---- MODULE Spec2Model ----
(***************************************************************************)
(* Lead deduplication subsystem: deduplicate_companies.py and              *)
(* deduplicate_contacts.py; batch checkpointing: checkpoint_manager.py.    *)
(*                                                                         *)
(* A Python str is a sequence of one-character strings; None is the        *)
(* distinguished value None below; a lead (a dict) is a function from the  *)
(* keys it carries to their values; a list index is the 0-based Python     *)
(* index, so leads[i] of the code is leads[i + 1] here.                    *)
(***************************************************************************)
EXTENDS Integers, Sequences, FiniteSets, TLC

VARIABLES
    pc,             \* position of the run
    name,           \* normalizer: the raw company name
    once,           \* normalizer: normalize_company_name(name)
    twice,          \* normalizer: normalize_company_name(once)
    leads,          \* the input list of lead records
    threshold,      \* the fuzzy threshold, a rational <<numerator, denominator>>
    groups,         \* group_id -> list of lead indices
    lead_to_group,  \* lead index -> group_id
    merged_leads,   \* the output list
    summary,        \* the summary a deduplicator returns
    items,          \* BatchProcessor.items
    checkpoint_file,\* the checkpoint file of the job: NoFile or its contents
    results,        \* run(): the local list results
    row,            \* run(): the loop index i
    returned,       \* the list the last completed run() returned
    save_interval,  \* CheckpointManager.save_interval
    on_progress,    \* BatchProcessor.on_progress is set
    runs            \* the number of calls of run() so far

\* the state of the batch processor
batchVars ==
    <<items, checkpoint_file, results, row, returned, save_interval, on_progress, runs>>

vars == <<pc, name, once, twice, leads, threshold, groups, lead_to_group, merged_leads,
          summary, batchVars>>

(***************************************************************************)
(* Python values and strings                                               *)
(***************************************************************************)

\* Python's None: a sequence no str can equal (its element is not one character).
None == <<"None">>

\* bool(v) of a str or None: the empty str and None are falsy.
Truthy(v) == v # None /\ v # <<>>

\* dict.get(key): None when the key is absent.
Get(lead, key) == IF key \in DOMAIN lead THEN lead[key] ELSE None

\* dict.get(key) where the code writes dict.get(key, "")
GetOrNone(lead, key) == IF key \in DOMAIN lead THEN lead[key] ELSE None

\* dict.get(key, ""): the default only replaces an absent key, never a null value.
GetOrEmpty(lead, key) == IF key \in DOMAIN lead THEN lead[key] ELSE <<>>

UpperCase ==
    <<"A","B","C","D","E","F","G","H","I","J","K","L","M",
      "N","O","P","Q","R","S","T","U","V","W","X","Y","Z">>

LowerCase ==
    <<"a","b","c","d","e","f","g","h","i","j","k","l","m",
      "n","o","p","q","r","s","t","u","v","w","x","y","z">>

Digits == {"0","1","2","3","4","5","6","7","8","9"}

\* str.isspace for the characters of the model.
WhiteSpace == {" ", "\t", "\n"}

Range(f) == {f[i] : i \in DOMAIN f}

\* the regular expression class \w
IsWordChar(c) == c \in Range(LowerCase) \cup Range(UpperCase) \cup Digits \cup {"_"}

LowerChar(c) ==
    IF c \in Range(UpperCase)
    THEN LowerCase[CHOOSE i \in DOMAIN UpperCase : UpperCase[i] = c]
    ELSE c

\* str.lower()
Lower(s) == SubSeq([i \in DOMAIN s |-> LowerChar(s[i])], 1, Len(s))

\* str.strip()
Strip(s) ==
    LET keep == {i \in DOMAIN s : s[i] \notin WhiteSpace}
    IN  IF keep = {} THEN <<>>
        ELSE SubSeq(s, CHOOSE i \in keep : \A k \in keep : i <= k,
                       CHOOSE i \in keep : \A k \in keep : i >= k)

\* s.endswith(suffix)
EndsWith(s, suffix) ==
    /\ Len(s) >= Len(suffix)
    /\ SubSeq(s, Len(s) - Len(suffix) + 1, Len(s)) = suffix

\* the k-th smallest element of a finite set of integers
Nth(S, k) == CHOOSE x \in S : Cardinality({y \in S : y < x}) = k - 1

\* the elements of a finite set of integers as an ascending list: sorted(S)
Sorted(S) == [k \in 1..Cardinality(S) |-> Nth(S, k)]

\* str.split(): the maximal runs of non-whitespace characters, in order.
Split(s) ==
    LET starts == {i \in DOMAIN s : s[i] \notin WhiteSpace /\ (i = 1 \/ s[i - 1] \in WhiteSpace)}
        ends   == {i \in DOMAIN s : s[i] \notin WhiteSpace /\ (i = Len(s) \/ s[i + 1] \in WhiteSpace)}
    IN  [k \in 1..Cardinality(starts) |-> SubSeq(s, Nth(starts, k), Nth(ends, k))]

\* sep.join(words)
RECURSIVE Join(_, _)
Join(sep, words) ==
    IF words = <<>> THEN <<>>
    ELSE IF Len(words) = 1 THEN words[1]
    ELSE words[1] \o sep \o Join(sep, Tail(words))

\* [w for w in words if w not in stop]
RECURSIVE FilterOut(_, _)
FilterOut(words, stop) ==
    IF words = <<>> THEN <<>>
    ELSE (IF words[1] \in stop THEN <<>> ELSE <<words[1]>>) \o FilterOut(Tail(words), stop)

(***************************************************************************)
(* deduplicate_companies.py: normalize_company_name                        *)
(***************************************************************************)

COMPANY_SUFFIXES == <<
    <<"i","n","c">>,
    <<"i","n","c",".">>,
    <<"i","n","c","o","r","p","o","r","a","t","e","d">>,
    <<"l","l","c">>,
    <<"l",".","l",".","c",".">>,
    <<"l",".","l",".","c">>,
    <<"l","t","d">>,
    <<"l","t","d",".">>,
    <<"l","i","m","i","t","e","d">>,
    <<"c","o","r","p">>,
    <<"c","o","r","p",".">>,
    <<"c","o","r","p","o","r","a","t","i","o","n">>,
    <<"c","o">>,
    <<"c","o",".">>,
    <<"c","o","m","p","a","n","y">>,
    <<"p","l","c">>,
    <<"p",".","l",".","c",".">>,
    <<"l","l","p">>,
    <<"l",".","l",".","p",".">>,
    <<"l","p">>,
    <<"l",".","p",".">>,
    <<"p","l","l","c">>,
    <<"p","c">>,
    <<"p",".","c",".">>,
    <<"g","m","b","h">>,
    <<"a","g">>,
    <<"s","a">>,
    <<"s","a","r","l">>,
    <<"s","r","l">>,
    <<"b","v">>,
    <<"n","v">>,
    <<"p","t","y">>,
    <<"p","t","y"," ","l","t","d">>,
    <<"p","v","t">>,
    <<"p","v","t"," ","l","t","d">>,
    <<"p","r","i","v","a","t","e"," ","l","i","m","i","t","e","d">> >>

NOISE_WORDS == {
    <<"t","h","e">>,
    <<"a">>,
    <<"a","n">>,
    <<"a","n","d">>,
    <<"&">>,
    <<"g","r","o","u","p">>,
    <<"h","o","l","d","i","n","g">>,
    <<"h","o","l","d","i","n","g","s">>,
    <<"i","n","t","e","r","n","a","t","i","o","n","a","l">>,
    <<"g","l","o","b","a","l">>,
    <<"w","o","r","l","d","w","i","d","e">>,
    <<"s","o","l","u","t","i","o","n","s">>,
    <<"s","e","r","v","i","c","e","s">>,
    <<"c","o","n","s","u","l","t","i","n","g">>,
    <<"t","e","c","h","n","o","l","o","g","i","e","s">>,
    <<"t","e","c","h","n","o","l","o","g","y">>,
    <<"t","e","c","h">>,
    <<"d","i","g","i","t","a","l">>,
    <<"m","e","d","i","a">>,
    <<"a","g","e","n","c","y">> }

\* re.sub(r'[^\w\s]', ' ', s)
ReplaceSpecial(s) ==
    SubSeq([i \in DOMAIN s |-> IF IsWordChar(s[i]) \/ s[i] \in WhiteSpace THEN s[i] ELSE " "],
           1, Len(s))

\* re.sub(r'\s+' + re.escape(suffix) + r'$', '', s): the one match, if any, is the
\* suffix at the very end of s together with the whole whitespace run before it.
StripSuffix(s, suffix) ==
    LET cut == Len(s) - Len(suffix)    \* index of the character before the suffix
    IN  IF /\ EndsWith(s, suffix)
           /\ cut >= 1
           /\ s[cut] \in WhiteSpace
        THEN LET nonws == {i \in 1..cut : s[i] \notin WhiteSpace}
             IN  IF nonws = {} THEN <<>>
                 ELSE SubSeq(s, 1, CHOOSE i \in nonws : \A k \in nonws : i >= k)
        ELSE s

\* for suffix in COMPANY_SUFFIXES: normalized = re.sub(...), from the k-th suffix on
RECURSIVE StripSuffixesFrom(_, _)
StripSuffixesFrom(s, k) ==
    IF s = <<>> \/ k > Len(COMPANY_SUFFIXES) THEN s    \* nothing matches in an empty str
    ELSE StripSuffixesFrom(StripSuffix(s, COMPANY_SUFFIXES[k]), k + 1)

\* re.sub(r'\s+', ' ', s).strip()
CollapseSpaces(s) == Join(<<" ">>, Split(s))

normalize_company_name(n) ==
    IF ~Truthy(n) THEN <<>>
    ELSE LET lowered  == Strip(Lower(n))
             cleaned  == ReplaceSpecial(lowered)
             stripped == StripSuffixesFrom(cleaned, 1)
             kept     == FilterOut(Split(stripped), NOISE_WORDS)
         IN  CollapseSpaces(Join(<<" ">>, kept))

(***************************************************************************)
(* deduplicate_companies.py: extract_domain, fuzzy_match                   *)
(***************************************************************************)

\* "@" in s
HasAt(s) == \E i \in DOMAIN s : s[i] = "@"

\* s.split("@")[1], for s with at least one "@": the text between the first "@"
\* and the next one (or the end of s).
AfterAt(s) ==
    LET ats    == {i \in DOMAIN s : s[i] = "@"}
        first  == Nth(ats, 1)
        second == IF Cardinality(ats) >= 2 THEN Nth(ats, 2) ELSE Len(s) + 1
    IN  SubSeq(s, first + 1, second - 1)

\* s.split("@")[0]
BeforeAt(s) ==
    LET ats == {i \in DOMAIN s : s[i] = "@"}
    IN  IF ats = {} THEN s ELSE SubSeq(s, 1, Nth(ats, 1) - 1)

\* extract_domain trying the email first and company_domain second
extract_domain_email_first(lead) ==
    IF Truthy(Get(lead, "email")) /\ HasAt(lead["email"])
    THEN Strip(Lower(AfterAt(lead["email"])))
    ELSE IF Truthy(Get(lead, "company_domain"))
         THEN Strip(Lower(lead["company_domain"]))
         ELSE None

extract_domain(lead) ==
    IF Truthy(Get(lead, "company_domain"))
    THEN Strip(Lower(lead["company_domain"]))
    ELSE IF Truthy(Get(lead, "email")) /\ HasAt(lead["email"])
         THEN Strip(Lower(AfterAt(lead["email"])))
         ELSE None

GENERIC_DOMAINS == {
    <<"g","m","a","i","l",".","c","o","m">>,
    <<"y","a","h","o","o",".","c","o","m">>,
    <<"h","o","t","m","a","i","l",".","c","o","m">>,
    <<"o","u","t","l","o","o","k",".","c","o","m">>  }

Min(x, y) == IF x <= y THEN x ELSE y

\* Length of the longest common run of a and b that starts at a[i] and b[j] and
\* stays within a[..ahi] and b[..bhi].
RunLength(a, i, ahi, b, j, bhi) ==
    LET room == Min(ahi - i, bhi - j) + 1
    IN  CHOOSE k \in 0..room :
            /\ \A d \in 0..(k - 1) : a[i + d] = b[j + d]
            /\ k = room \/ a[i + k] # b[j + k]

\* SequenceMatcher.find_longest_match on a[alo..ahi], b[blo..bhi] (1-based,
\* inclusive; no junk, and autojunk needs 200 elements): <<i, j, k>>, the longest
\* matching block, the one starting earliest in a and then earliest in b.
find_longest_match(a, alo, ahi, b, blo, bhi) ==
    LET pairs == {<<i, j>> \in (alo..ahi) \X (blo..bhi) : a[i] = b[j]}
    IN  IF pairs = {} THEN <<alo, blo, 0>>
        ELSE LET len == [p \in pairs |-> RunLength(a, p[1], ahi, b, p[2], bhi)]
                 best == CHOOSE p \in pairs :
                            \A q \in pairs :
                                \/ len[q] < len[p]
                                \/ /\ len[q] = len[p]
                                   /\ \/ p[1] < q[1]
                                      \/ p[1] = q[1] /\ p[2] <= q[2]
             IN  <<best[1], best[2], len[best]>>

\* sum of the sizes of SequenceMatcher.get_matching_blocks: the longest block,
\* then the same to its left and to its right.
RECURSIVE MatchCount(_, _, _, _, _, _)
MatchCount(a, alo, ahi, b, blo, bhi) ==
    IF alo > ahi \/ blo > bhi THEN 0
    ELSE LET m == find_longest_match(a, alo, ahi, b, blo, bhi)
         IN  IF m[3] = 0 THEN 0
             ELSE m[3] + MatchCount(a, alo, m[1] - 1, b, blo, m[2] - 1)
                       + MatchCount(a, m[1] + m[3], ahi, b, m[2] + m[3], bhi)

\* A ratio is a pair <<numerator, denominator>> with denominator > 0.
RatioGE(r, t) == r[1] * t[2] >= t[1] * r[2]

RatioEQ(r, t) == r[1] * t[2] = t[1] * r[2]

\* SequenceMatcher(None, s1, s2).ratio() = 2.0 * M / T, or 0.0 for an empty str
fuzzy_match(s1, s2) ==
    IF ~Truthy(s1) \/ ~Truthy(s2) THEN <<0, 1>>
    ELSE <<2 * MatchCount(s1, 1, Len(s1), s2, 1, Len(s2)), Len(s1) + Len(s2)>>

(***************************************************************************)
(* deduplicate_companies.py: find_duplicates                               *)
(***************************************************************************)

DigitChar == <<"0","1","2","3","4","5","6","7","8","9">>

\* str(n) for an int n >= 0
RECURSIVE IntToStr(_)
IntToStr(n) ==
    IF n < 10 THEN <<DigitChar[n + 1]>>
    ELSE IntToStr(n \div 10) \o <<DigitChar[(n % 10) + 1]>>

\* the group id without the "domain_" prefix
DomainGroupIdBare(domain) == domain

\* f"domain_{domain}"
DomainGroupId(domain) == <<"d","o","m","a","i","n","_">> \o domain

\* f"fuzzy_{group_counter}"
FuzzyGroupId(group_counter) == <<"f","u","z","z","y","_">> \o IntToStr(group_counter)

\* the domains the first pass groups on: found, non-empty and not generic
GroupableDomain(domain) == Truthy(domain) /\ domain \notin GENERIC_DOMAINS

\* the comparison written as similarity > threshold
SimilarEnoughStrict(similarity, th) == similarity[1] * th[2] > th[1] * similarity[2]

\* the comparison with a tolerance of 0.05 below the threshold
SimilarEnoughLoose(similarity, th) ==
    similarity[1] * th[2] * 100 >= (th[1] * 100 - 5 * th[2]) * similarity[2]

\* if similarity >= threshold
SimilarEnough(similarity, th) == RatioGE(similarity, th)

\* First pass: group by exact domain match.
DomainPass(ls) ==
    LET idx     == 0..(Len(ls) - 1)
        dom     == [i \in idx |-> extract_domain(ls[i + 1])]
        members == [i \in idx |-> {k \in idx : dom[k] = dom[i]}]
        inGroup == {i \in idx : GroupableDomain(dom[i]) /\ Cardinality(members[i]) > 1}
        ids     == {DomainGroupId(dom[i]) : i \in inGroup}
    IN  [groups        |-> [g \in ids |->
                              Sorted({i \in inGroup : DomainGroupId(dom[i]) = g})],
         lead_to_group |-> [i \in inGroup |-> DomainGroupId(dom[i])]]

\* the candidates linked to a member of S by a chain of similar names
RECURSIVE Linked(_, _, _, _)
Linked(names, candidates, th, S) ==
    LET more == {j \in candidates \ S :
                    \E m \in S : SimilarEnough(fuzzy_match(names[m + 1], names[j + 1]), th)}
    IN  IF more = {} THEN S ELSE Linked(names, candidates, th, S \cup more)

\* the second pass collecting the transitive closure of the links instead of the
\* records similar to the anchor
FuzzyStepClosure(names, ungrouped, th, i, st) ==
    IF i \notin ungrouped \/ i \in st.processed \/ ~Truthy(names[i + 1]) THEN st
    ELSE LET found == Linked(names,
                             {j \in ungrouped : /\ j > i
                                                /\ j \notin st.processed
                                                /\ Truthy(names[j + 1])},
                             th, {i}) \ {i}
             matches  == <<i>> \o Sorted(found)
             group_id == FuzzyGroupId(st.group_counter)
         IN  IF found = {} THEN st
             ELSE [groups        |-> (group_id :> matches) @@ st.groups,
                   lead_to_group |-> [k \in Range(matches) |-> group_id] @@ st.lead_to_group,
                   processed     |-> st.processed \cup Range(matches),
                   group_counter |-> st.group_counter + 1]

\* Second pass, one iteration of "for i in ungrouped": the state after index i.
\* st carries groups, lead_to_group, processed and group_counter.
FuzzyStep(names, ungrouped, th, i, st) ==
    IF i \notin ungrouped \/ i \in st.processed \/ ~Truthy(names[i + 1]) THEN st
    ELSE LET found == {j \in ungrouped :
                          /\ j > i
                          /\ j \notin st.processed
                          /\ Truthy(names[j + 1])
                          /\ SimilarEnough(fuzzy_match(names[i + 1], names[j + 1]), th)}
             matches  == <<i>> \o Sorted(found)
             group_id == FuzzyGroupId(st.group_counter)
         IN  IF found = {} THEN st
             ELSE [groups        |-> (group_id :> matches) @@ st.groups,
                   lead_to_group |-> [k \in Range(matches) |-> group_id] @@ st.lead_to_group,
                   processed     |-> st.processed \cup Range(matches),
                   group_counter |-> st.group_counter + 1]

\* Second pass: the loop "for i in ungrouped" from index i on (each state is
\* computed once, then handed on).
RECURSIVE FuzzyPass(_, _, _, _, _)
FuzzyPass(names, ungrouped, th, i, st) ==
    IF i >= Len(names) THEN st
    ELSE CHOOSE final \in {FuzzyPass(names, ungrouped, th, i + 1, next) :
                              next \in {FuzzyStep(names, ungrouped, th, i, st)}} : TRUE

\* the names of a second pass that leaves out every lead with a groupable domain
NormalizedNamesWithoutDomain(ls, ungrouped) ==
    SubSeq([k \in 1..Len(ls) |->
               IF (k - 1) \in ungrouped /\ ~GroupableDomain(extract_domain(ls[k]))
               THEN normalize_company_name(GetOrEmpty(ls[k], "company_name"))
               ELSE <<>>], 1, Len(ls))

\* the names the second pass compares: normalized_names, "" for a grouped lead
NormalizedNames(ls, ungrouped) ==
    SubSeq([k \in 1..Len(ls) |->
               IF (k - 1) \in ungrouped
               THEN normalize_company_name(GetOrEmpty(ls[k], "company_name"))
               ELSE <<>>], 1, Len(ls))

\* find_duplicates with a second pass over all the leads, grouped or not
find_duplicates_regroup(ls, th) ==
    CHOOSE final \in
        {FuzzyPass(NormalizedNames(ls, 0..(Len(ls) - 1)),
                   0..(Len(ls) - 1), th, 0,
                   [groups        |-> first.groups,
                    lead_to_group |-> first.lead_to_group,
                    processed     |-> {},
                    group_counter |-> 0]) :
            first \in {DomainPass(ls)}} : TRUE

\* the result of find_duplicates: groups and lead_to_group (with the second
\* pass's processed set and group_counter)
find_duplicates(ls, th) ==
    CHOOSE final \in
        {FuzzyPass(NormalizedNames(ls, (0..(Len(ls) - 1)) \ DOMAIN first.lead_to_group),
                   (0..(Len(ls) - 1)) \ DOMAIN first.lead_to_group, th, 0,
                   [groups        |-> first.groups,
                    lead_to_group |-> first.lead_to_group,
                    processed     |-> {},
                    group_counter |-> 0]) :
            first \in {DomainPass(ls)}} : TRUE

(***************************************************************************)
(* deduplicate_companies.py: merge_duplicates                              *)
(***************************************************************************)

Points(l, key, weight) == IF Truthy(Get(l, key)) THEN weight ELSE 0

\* a score that counts the email alone
completeness_score_email_only(l) == Points(l, "email", 2)

completeness_score(l) ==
    Points(l, "email", 2) + Points(l, "first_name", 1) + Points(l, "last_name", 1)
    + Points(l, "title", 1) + Points(l, "linkedin_url", 1) + Points(l, "phone", 1)
    + Points(l, "company_domain", 1) + Points(l, "employee_count", 1)
    + Points(l, "industry", 1)

\* merge_contact_duplicates.score
score(l) ==
    Points(l, "email", 3) + Points(l, "first_name", 1) + Points(l, "last_name", 1)
    + Points(l, "title", 2) + Points(l, "linkedin_url", 2) + Points(l, "phone", 1)

\* the sort key of the deduplicator at hand: "company" or "contact"
ScoreOf(kind, l) == IF kind = "company" THEN completeness_score(l) ELSE score(l)

\* the annotation keys of the deduplicator at hand
CountKey(kind) == IF kind = "company" THEN "_duplicate_count" ELSE "_contact_duplicate_count"

GroupKey(kind) == IF kind = "company" THEN "_duplicate_group" ELSE "_contact_duplicate_group"

\* the descending sort that puts the later of two members of equal score first
SortByScoreLastFirst(group_leads, kind) ==
    LET pos  == 1..Len(group_leads)
        sc   == [p \in pos |-> ScoreOf(kind, group_leads[p])]
        rank == [p \in pos |->
                    1 + Cardinality({q \in pos : sc[q] > sc[p] \/ (sc[q] = sc[p] /\ q > p)})]
    IN  [r \in pos |-> group_leads[CHOOSE p \in pos : rank[p] = r]]

\* group_leads.sort(key=..., reverse=True): descending, and stable, so members of
\* equal score keep their order.
SortByScore(group_leads, kind) ==
    LET pos  == 1..Len(group_leads)
        sc   == [p \in pos |-> ScoreOf(kind, group_leads[p])]
        rank == [p \in pos |->
                    1 + Cardinality({q \in pos : sc[q] > sc[p] \/ (sc[q] = sc[p] /\ q < p)})]
    IN  [r \in pos |-> group_leads[CHOOSE p \in pos : rank[p] = r]]

\* the filling in which a later member overwrites what an earlier one gave
FillFromOthersOverwrite(sorted) ==
    LET primary == sorted[1]
        givers  == [k \in UNION {DOMAIN sorted[x] : x \in 1..Len(sorted)} |->
                       {x \in 2..Len(sorted) : k \in DOMAIN sorted[x] /\ Truthy(sorted[x][k])}]
        keys    == DOMAIN primary \cup {k \in DOMAIN givers : givers[k] # {}}
    IN  [k \in keys |->
            IF Truthy(Get(primary, k)) \/ givers[k] = {} THEN primary[k]
            ELSE sorted[Nth(givers[k], Cardinality(givers[k]))][k]]

\* primary = sorted[0].copy(), then every other member in sorted order gives its
\* non-empty values to the keys the primary has no non-empty value for.
FillFromOthers(sorted) ==
    LET primary == sorted[1]
        givers  == [k \in UNION {DOMAIN sorted[x] : x \in 1..Len(sorted)} |->
                       {x \in 2..Len(sorted) : k \in DOMAIN sorted[x] /\ Truthy(sorted[x][k])}]
        keys    == DOMAIN primary \cup {k \in DOMAIN givers : givers[k] # {}}
    IN  [k \in keys |->
            IF Truthy(Get(primary, k)) \/ givers[k] = {} THEN primary[k]
            ELSE sorted[Nth(givers[k], 1)][k]]

\* the merge that counts only the members folded into the primary
MergeGroupCountingOthers(ls, group_indices, group_id, kind) ==
    LET group_leads == [x \in 1..Len(group_indices) |-> ls[group_indices[x] + 1]]
        filled      == FillFromOthers(SortByScore(group_leads, kind))
    IN  [k \in DOMAIN filled \cup {CountKey(kind), GroupKey(kind)} |->
            IF k = CountKey(kind) THEN Len(group_leads) - 1
            ELSE IF k = GroupKey(kind) THEN group_id
            ELSE filled[k]]

\* the merged record of one group, annotated with the group's size and id
MergeGroup(ls, group_indices, group_id, kind) ==
    LET group_leads == [x \in 1..Len(group_indices) |-> ls[group_indices[x] + 1]]
        filled      == FillFromOthers(SortByScore(group_leads, kind))
    IN  [k \in DOMAIN filled \cup {CountKey(kind), GroupKey(kind)} |->
            IF k = CountKey(kind) THEN Len(group_leads)
            ELSE IF k = GroupKey(kind) THEN group_id
            ELSE filled[k]]

\* the loop without processed_groups: every member of a group appends a record
EmittingIndicesAll(ls, l2g) == 0..(Len(ls) - 1)

\* the loop appending a group's record where its last member stands
EmittingIndicesLast(ls, l2g) ==
    LET idx == 0..(Len(ls) - 1)
    IN  {i \in idx : i \notin DOMAIN l2g
                     \/ ~\E e \in idx : e > i /\ e \in DOMAIN l2g /\ l2g[e] = l2g[i]}

\* the indices at which the loop over the leads appends a record: those of the
\* ungrouped leads and, for each group, the first index met (the later ones find
\* the group in processed_groups)
EmittingIndices(ls, l2g) ==
    LET idx == 0..(Len(ls) - 1)
    IN  {i \in idx : i \notin DOMAIN l2g
                     \/ ~\E e \in idx : e < i /\ e \in DOMAIN l2g /\ l2g[e] = l2g[i]}

\* the loop annotating the copy of an ungrouped lead as a group of one
MergeAllAnnotating(ls, gs, l2g, kind) ==
    LET kept == EmittingIndices(ls, l2g)
    IN  [k \in 1..Cardinality(kept) |->
            LET i == Nth(kept, k)
            IN  IF i \in DOMAIN l2g
                THEN MergeGroup(ls, gs[l2g[i]], l2g[i], kind)
                ELSE [key \in DOMAIN ls[i + 1] \cup {CountKey(kind)} |->
                         IF key = CountKey(kind) THEN 1 ELSE ls[i + 1][key]]]

\* the loop over the leads: a group is merged where its first member stands, its
\* other members are skipped, an ungrouped lead is copied.
MergeAll(ls, gs, l2g, kind) ==
    LET kept == EmittingIndices(ls, l2g)
    IN  [k \in 1..Cardinality(kept) |->
            LET i == Nth(kept, k)
            IN  IF i \in DOMAIN l2g
                THEN MergeGroup(ls, gs[l2g[i]], l2g[i], kind)
                ELSE ls[i + 1]]

merge_duplicates(ls, gs, l2g) == MergeAll(ls, gs, l2g, "company")

merge_contact_duplicates(ls, gs, l2g) == MergeAll(ls, gs, l2g, "contact")

(***************************************************************************)
(* deduplicate_contacts.py: normalize_email, extract_name_parts,           *)
(* emails_are_aliases                                                      *)
(***************************************************************************)

\* s.count("@")
CountAt(s) == Cardinality({i \in DOMAIN s : s[i] = "@"})

\* local.split("+")[0]
BeforePlus(s) ==
    LET plus == {i \in DOMAIN s : s[i] = "+"}
    IN  IF plus = {} THEN s ELSE SubSeq(s, 1, Nth(plus, 1) - 1)

\* "local, domain = email.split("@")" raises ValueError unless the split gives
\* exactly two parts.
NormalizeEmailRaises(email) == Truthy(email) /\ CountAt(email) >= 2

\* normalize_email keeping the "+" tag of the local part
normalize_email_keep_tag(email) ==
    IF ~Truthy(email) THEN None
    ELSE LET e      == Strip(Lower(email))
             local  == IF HasAt(e) THEN BeforeAt(e) ELSE e
             domain == IF HasAt(e) THEN AfterAt(e) ELSE <<>>
         IN  IF domain # <<>> THEN local \o <<"@">> \o domain ELSE None

\* normalize_email for an email it does not raise on
normalize_email(email) ==
    IF ~Truthy(email) THEN None
    ELSE LET e      == Strip(Lower(email))
             local  == BeforePlus(IF HasAt(e) THEN BeforeAt(e) ELSE e)
             domain == IF HasAt(e) THEN AfterAt(e) ELSE <<>>
         IN  IF domain # <<>> THEN local \o <<"@">> \o domain ELSE None

\* the maximal runs of the characters of s at the positions where inRun holds
Runs(s, inRun) ==
    LET starts == {i \in DOMAIN s : inRun[i] /\ (i = 1 \/ ~inRun[i - 1])}
        ends   == {i \in DOMAIN s : inRun[i] /\ (i = Len(s) \/ ~inRun[i + 1])}
    IN  {SubSeq(s, Nth(starts, k), Nth(ends, k)) : k \in 1..Cardinality(starts)}

extract_name_parts(email) ==
    IF ~Truthy(email) \/ ~HasAt(email) THEN {}
    ELSE LET local       == Lower(BeforeAt(email))
             \* re.split(r'[._\-]', local): the empty pieces never pass the filter
             parts       == Runs(local, [i \in DOMAIN local |-> local[i] \notin {".", "_", "-"}])
             \* re.findall(r'[a-z]+', local)
             camel_parts == Runs(local, [i \in DOMAIN local |-> local[i] \in Range(LowerCase)])
         IN  {part \in parts \cup camel_parts : Len(part) >= 2}

emails_are_aliases(email1, email2) ==
    IF ~Truthy(email1) \/ ~Truthy(email2) THEN FALSE
    ELSE LET e1 == Lower(email1)
             e2 == Lower(email2)
         IN  IF ~HasAt(e1) \/ ~HasAt(e2) THEN FALSE
             ELSE IF AfterAt(e1) # AfterAt(e2) THEN FALSE
             ELSE IF AfterAt(e1) \in GENERIC_DOMAINS THEN FALSE
             ELSE LET parts1 == extract_name_parts(e1)
                      parts2 == extract_name_parts(e2)
                  IN  IF parts1 = {} \/ parts2 = {} THEN FALSE
                      ELSE IF parts1 \cap parts2 # {} THEN TRUE
                      ELSE \E p1 \in parts1 : \E p2 \in parts2 :
                              p1[1] = p2[1] /\ (Len(p1) = 1 \/ Len(p2) = 1)

(***************************************************************************)
(* deduplicate_contacts.py: names_match, same_company                      *)
(***************************************************************************)

\* lead.get(key, "") is None: the key is present with a null value, and a str
\* method called on it raises AttributeError.
IsNull(lead, key) == key \in DOMAIN lead /\ lead[key] = None

\* lead.get(key, "").lower().strip()
Cleaned(lead, key) == Strip(Lower(GetOrEmpty(lead, key)))

\* the full names of two leads match exactly or by ratio >= 0.85
FullNamesMatch(lead1, lead2) ==
    LET name1 == Cleaned(lead1, "full_name")
        name2 == Cleaned(lead2, "full_name")
    IN  /\ name1 # <<>>
        /\ name2 # <<>>
        /\ \/ name1 = name2
           \/ RatioGE(fuzzy_match(name1, name2), <<85, 100>>)

names_match_raises(lead1, lead2) ==
    \/ IsNull(lead1, "full_name")
    \/ IsNull(lead2, "full_name")
    \/ /\ ~FullNamesMatch(lead1, lead2)
       /\ \E key \in {"first_name", "last_name"} : IsNull(lead1, key) \/ IsNull(lead2, key)

\* names_match for two leads it does not raise on
names_match(lead1, lead2) ==
    \/ FullNamesMatch(lead1, lead2)
    \/ LET first1 == Cleaned(lead1, "first_name")
           last1  == Cleaned(lead1, "last_name")
           first2 == Cleaned(lead2, "first_name")
           last2  == Cleaned(lead2, "last_name")
       IN  /\ first1 # <<>> /\ last1 # <<>> /\ first2 # <<>> /\ last2 # <<>>
           /\ \/ first1 = first2 /\ last1 = last2
              \/ first1 = first2 /\ last1[1] = last2[1]

\* both company_domain values are non-empty and equal, lowercased
SameCompanyDomain(lead1, lead2) ==
    LET domain1 == Lower(GetOrEmpty(lead1, "company_domain"))
        domain2 == Lower(GetOrEmpty(lead2, "company_domain"))
    IN  domain1 # <<>> /\ domain2 # <<>> /\ domain1 = domain2

\* email.split("@")[1].lower() if "@" in email else ""
EmailDomain(email) == IF HasAt(email) THEN Lower(AfterAt(email)) ELSE <<>>

\* both email domains are non-empty, equal and not generic
SameEmailDomain(lead1, lead2) ==
    LET email1 == GetOrEmpty(lead1, "email")
        email2 == GetOrEmpty(lead2, "email")
    IN  /\ Truthy(email1)
        /\ Truthy(email2)
        /\ EmailDomain(email1) # <<>>
        /\ EmailDomain(email2) # <<>>
        /\ EmailDomain(email1) = EmailDomain(email2)
        /\ EmailDomain(email1) \notin GENERIC_DOMAINS

\* both company names are non-empty and equal, lowercased and trimmed
SameCompanyName(lead1, lead2) ==
    /\ Cleaned(lead1, "company_name") # <<>>
    /\ Cleaned(lead2, "company_name") # <<>>
    /\ Cleaned(lead1, "company_name") = Cleaned(lead2, "company_name")

same_company_raises(lead1, lead2) ==
    \/ IsNull(lead1, "company_domain")
    \/ IsNull(lead2, "company_domain")
    \/ /\ ~SameCompanyDomain(lead1, lead2)
       /\ ~SameEmailDomain(lead1, lead2)
       /\ IsNull(lead1, "company_name") \/ IsNull(lead2, "company_name")

\* same_company without the comparison of the company names
same_company_domains_only(lead1, lead2) ==
    \/ SameCompanyDomain(lead1, lead2)
    \/ SameEmailDomain(lead1, lead2)

\* same_company for two leads it does not raise on
same_company(lead1, lead2) ==
    \/ SameCompanyDomain(lead1, lead2)
    \/ SameEmailDomain(lead1, lead2)
    \/ SameCompanyName(lead1, lead2)

(***************************************************************************)
(* deduplicate_contacts.py: find_contact_duplicates                        *)
(***************************************************************************)

\* f"email_{group_counter}", f"alias_{group_counter}", f"name_{group_counter}"
EmailGroupId(group_counter) == <<"e","m","a","i","l","_">> \o IntToStr(group_counter)

AliasGroupId(group_counter) == <<"a","l","i","a","s","_">> \o IntToStr(group_counter)

\* the id of a name group written with the number of the group within its pass
NameGroupIdOfPass(group_counter) == <<"n","a","m","e","_">> \o IntToStr(0)

NameGroupId(group_counter) == <<"n","a","m","e","_">> \o IntToStr(group_counter)

\* First pass: exact email match. email_groups keeps its keys in the order of
\* their first lead, and the groups of two or more are numbered in that order.
EmailPass(ls) ==
    LET idx     == 0..(Len(ls) - 1)
        email   == [i \in idx |-> normalize_email(GetOrEmpty(ls[i + 1], "email"))]
        inGroup == {i \in idx : email[i] # None /\ \E k \in idx : k # i /\ email[k] = email[i]}
        firsts  == {i \in inGroup : \A k \in inGroup : email[k] = email[i] => i <= k}
        id      == [f \in firsts |-> EmailGroupId(Cardinality({e \in firsts : e < f}))]
        firstOf == [i \in inGroup |-> CHOOSE f \in firsts : email[f] = email[i]]
    IN  [groups        |-> [g \in {id[f] : f \in firsts} |->
                              Sorted({i \in inGroup : id[firstOf[i]] = g})],
         lead_to_group |-> [i \in inGroup |-> id[firstOf[i]]],
         group_counter |-> Cardinality(firsts),
         raised        |-> FALSE,
         processed     |-> {}]

\* one iteration of the alias loop "for i in indices" of one domain: the state
\* after index i. st carries groups, lead_to_group, group_counter, raised and the
\* domain's processed set.
AliasStep(ls, indices, i, st) ==
    IF i \notin indices \/ i \in st.processed \/ i \in DOMAIN st.lead_to_group THEN st
    ELSE LET email_i  == GetOrEmpty(ls[i + 1], "email")
             found    == {j \in indices :
                            /\ j > i
                            /\ j \notin st.processed
                            /\ j \notin DOMAIN st.lead_to_group
                            /\ emails_are_aliases(email_i, GetOrEmpty(ls[j + 1], "email"))}
             matches  == <<i>> \o Sorted(found)
             group_id == AliasGroupId(st.group_counter)
         IN  IF found = {} THEN st
             ELSE [groups        |-> (group_id :> matches) @@ st.groups,
                   lead_to_group |-> [k \in Range(matches) |-> group_id] @@ st.lead_to_group,
                   group_counter |-> st.group_counter + 1,
                   raised        |-> st.raised,
                   processed     |-> st.processed \cup Range(matches)]

\* the alias loop "for i in indices" of one domain, over the indices from i on
RECURSIVE AliasLoop(_, _, _, _)
AliasLoop(ls, indices, i, st) ==
    IF i >= Len(ls) THEN st
    ELSE CHOOSE final \in {AliasLoop(ls, indices, i + 1, next) :
                              next \in {AliasStep(ls, indices, i, st)}} : TRUE

\* the email domain the second pass files a lead under, None for a lead it skips
AliasDomain(lead) ==
    LET email == GetOrEmpty(lead, "email")
    IN  IF Truthy(email) /\ HasAt(email) THEN Lower(AfterAt(email)) ELSE None

\* the domains the alias loop runs on: two or more leads, and not generic
AliasCandidate(domain, indices) ==
    Cardinality(indices) >= 2 /\ domain \notin GENERIC_DOMAINS

\* the leads the second pass files under a domain
Filed(ls, ungrouped) == {i \in ungrouped : AliasDomain(ls[i + 1]) # None}

\* domain_leads.items() keeps the domains in the order of their first lead: the
\* first leads of the domains, ascending
DomainOrder(ls, ungrouped) ==
    LET filed == Filed(ls, ungrouped)
    IN  Sorted({i \in filed : \A k \in filed :
                    AliasDomain(ls[k + 1]) = AliasDomain(ls[i + 1]) => i <= k})

\* Second pass, one iteration of "for domain, indices in domain_leads.items()":
\* the state after the d-th domain of the order; processed starts empty.
AliasDomainStep(ls, ungrouped, order, d, st) ==
    LET domain  == AliasDomain(ls[order[d] + 1])
        indices == {i \in Filed(ls, ungrouped) : AliasDomain(ls[i + 1]) = domain}
    IN  IF AliasCandidate(domain, indices)
        THEN AliasLoop(ls, indices, 0, [st EXCEPT !.processed = {}])
        ELSE st

\* Second pass: the loop over the domains, from the d-th domain of the order on.
RECURSIVE AliasPass(_, _, _, _, _)
AliasPass(ls, ungrouped, order, d, st) ==
    IF d > Len(order) THEN st
    ELSE CHOOSE final \in {AliasPass(ls, ungrouped, order, d + 1, next) :
                              next \in {AliasDomainStep(ls, ungrouped, order, d, st)}} : TRUE

\* lead_i can anchor a name group: it has a full_name, or a first and a last name
HasName(lead) ==
    \/ Truthy(Get(lead, "full_name"))
    \/ Truthy(Get(lead, "first_name")) /\ Truthy(Get(lead, "last_name"))

\* "same_company(lead_i, lead_j) and names_match(lead_i, lead_j)" raises
PairRaises(lead_i, lead_j) ==
    \/ same_company_raises(lead_i, lead_j)
    \/ same_company(lead_i, lead_j) /\ names_match_raises(lead_i, lead_j)

\* the third pass linking on names_match alone
NameStepNamesOnly(ls, ungrouped, i, st) ==
    IF i \notin ungrouped \/ i \in DOMAIN st.lead_to_group \/ ~HasName(ls[i + 1]) THEN st
    ELSE LET others   == {j \in ungrouped : j > i /\ j \notin DOMAIN st.lead_to_group}
             found    == {j \in others : names_match(ls[i + 1], ls[j + 1])}
             matches  == <<i>> \o Sorted(found)
             group_id == NameGroupId(st.group_counter)
         IN  IF \E j \in others : PairRaises(ls[i + 1], ls[j + 1])
             THEN [st EXCEPT !.raised = TRUE]
             ELSE IF found = {} THEN st
             ELSE [groups        |-> (group_id :> matches) @@ st.groups,
                   lead_to_group |-> [k \in Range(matches) |-> group_id] @@ st.lead_to_group,
                   group_counter |-> st.group_counter + 1,
                   raised        |-> FALSE,
                   processed     |-> st.processed]

\* Third pass, one iteration of "for i in ungrouped": the state after index i.
NameStep(ls, ungrouped, i, st) ==
    IF i \notin ungrouped \/ i \in DOMAIN st.lead_to_group \/ ~HasName(ls[i + 1]) THEN st
    ELSE LET others   == {j \in ungrouped : j > i /\ j \notin DOMAIN st.lead_to_group}
             found    == {j \in others : /\ same_company(ls[i + 1], ls[j + 1])
                                         /\ names_match(ls[i + 1], ls[j + 1])}
             matches  == <<i>> \o Sorted(found)
             group_id == NameGroupId(st.group_counter)
         IN  IF \E j \in others : PairRaises(ls[i + 1], ls[j + 1])
             THEN [st EXCEPT !.raised = TRUE]
             ELSE IF found = {} THEN st
             ELSE [groups        |-> (group_id :> matches) @@ st.groups,
                   lead_to_group |-> [k \in Range(matches) |-> group_id] @@ st.lead_to_group,
                   group_counter |-> st.group_counter + 1,
                   raised        |-> FALSE,
                   processed     |-> st.processed]

\* Third pass: the loop "for i in ungrouped" from index i on; an exception ends it.
RECURSIVE NamePass(_, _, _, _)
NamePass(ls, ungrouped, i, st) ==
    IF i >= Len(ls) \/ st.raised THEN st
    ELSE CHOOSE final \in {NamePass(ls, ungrouped, i + 1, next) :
                              next \in {NameStep(ls, ungrouped, i, st)}} : TRUE

\* the three passes in turn, each starting from the groups of the one before
ThreePasses(ls) ==
    LET idx == 0..(Len(ls) - 1)
    IN  CHOOSE third \in
            {NamePass(ls, idx \ DOMAIN second.lead_to_group, 0, second) :
                second \in
                    {AliasPass(ls, idx \ DOMAIN first.lead_to_group,
                               DomainOrder(ls, idx \ DOMAIN first.lead_to_group), 1, first) :
                        first \in {EmailPass(ls)}}} : TRUE

\* the result of find_contact_duplicates: groups and lead_to_group (with the
\* passes' group_counter and processed set); raised tells that an exception left it
find_contact_duplicates(ls) ==
    IF \E i \in 1..Len(ls) : NormalizeEmailRaises(GetOrEmpty(ls[i], "email"))
    THEN [groups |-> <<>>, lead_to_group |-> <<>>, group_counter |-> 0,
          raised |-> TRUE, processed |-> {}]
    ELSE ThreePasses(ls)

(***************************************************************************)
(* Normalizer runs: a raw name is normalized, and the result once more     *)
(***************************************************************************)

MaxWords == 3

NameTokens == {
    <<"a","c","m","e">>,
    <<"A","c","m","e">>,
    <<"i","n","c">>,
    <<"l","l","c">>,
    <<"s","o","l","u","t","i","o","n","s">>,
    <<"S","o","l","u","t","i","o","n","s",",">>,
    <<"I","n","c",".">> }

RawNames ==
    {<<>>, None} \cup
    {Join(<<" ">>, ws) : ws \in UNION {[1..k -> NameTokens] : k \in 1..MaxWords}}

\* the deduplicators are not running
\* no batch job was run
BatchIdle ==
    /\ items = <<>>
    /\ checkpoint_file = <<>>
    /\ results = <<>>
    /\ row = 0
    /\ returned = <<>>
    /\ save_interval = 50
    /\ on_progress = FALSE
    /\ runs = 0

Idle ==
    /\ leads = <<>>
    /\ threshold = <<85, 100>>
    /\ groups = <<>>
    /\ lead_to_group = <<>>
    /\ merged_leads = <<>>

\* the normalizer is not running
NormIdle ==
    /\ name = <<>>
    /\ once = <<>>
    /\ twice = <<>>

InitNorm ==
    /\ pc = "input"
    /\ name \in RawNames
    /\ once = <<>>
    /\ twice = <<>>
    /\ Idle
    /\ summary = <<>>
    /\ BatchIdle

NormalizeName ==
    /\ pc = "input"
    /\ once' = normalize_company_name(name)
    /\ pc' = "once"
    /\ UNCHANGED <<name, twice, leads, threshold, groups, lead_to_group, merged_leads, summary, batchVars>>

NormalizeAgain ==
    /\ pc = "once"
    /\ twice' = normalize_company_name(once)
    /\ pc' = "twice"
    /\ UNCHANGED <<name, once, leads, threshold, groups, lead_to_group, merged_leads, summary, batchVars>>

NextNorm == NormalizeName \/ NormalizeAgain

SpecNorm == InitNorm /\ [][NextNorm]_vars

(***************************************************************************)
(* Company deduplicator runs: find_duplicates, then merge_duplicates       *)
(***************************************************************************)

MaxLeads == 3

\* company names: NameX ~ NameY has ratio 34/40 = 0.85, NameX ~ NameZ has 42/50 = 0.84
NameX == <<"a","b","c","d","e","f","g","h","i","j","k","l","m","n","o","p","q","r","s","t","u">>
NameY == <<"a","b","c","d","e","f","g","h","i","j","k","l","m","n","o","p","q","v","w">>
NameZ == <<"a","b","c","d","e","f","g","h","i","j","k","l","m","n","o","p","q","r","s","t","u",
           "v","w","x","y","z","1","2","3">>
AcmeInc == <<"A","c","m","e"," ","I","n","c">>
Acme == <<"A","c","m","e">>

AcmeComRaw == <<"A","c","m","e",".","c","o","m"," ">>
AcmeCom == <<"a","c","m","e",".","c","o","m">>
BetaIo == <<"b","e","t","a",".","i","o">>
GmailCom == <<"g","m","a","i","l",".","c","o","m">>

\* members A and B of the completeness example
LeadA ==
    [email |-> <<"a","@","a","c","m","e",".","c","o","m">>, title |-> <<"C","E","O">>]

LeadB ==
    [email |-> <<"b","@","a","c","m","e",".","c","o","m">>, title |-> <<"C","T","O">>,
     linkedin_url |-> <<"l","i">>, phone |-> <<"5","5","5">>]

CompanyLeads == {
    [company_name |-> NameX],
    [company_name |-> NameY],
    [company_name |-> NameZ],
    [company_name |-> AcmeInc, company_domain |-> AcmeComRaw,
     email |-> <<"a","@","a","c","m","e",".","c","o","m">>],
    [company_name |-> Acme, company_domain |-> AcmeCom,
     email |-> <<"c","@","g","m","a","i","l",".","c","o","m">>],
    [company_name |-> Acme, company_domain |-> BetaIo, phone |-> <<>>,
     email |-> <<"a","@","a","c","m","e",".","c","o","m">>],
    [company_name |-> Acme, company_domain |-> GmailCom],
    [company_name |-> None, company_domain |-> None,
     email |-> <<"c","@","g","m","a","i","l",".","c","o","m">>],
    [company_name |-> AcmeInc, email |-> <<"n","o","a","t">>],
    LeadA,
    LeadB }

\* example scenario 1: two spellings of one company at acme.com
AcmeCorpLead == [company_name |-> <<"A","c","m","e"," ","C","o","r","p">>, company_domain |-> AcmeCom]

AcmeCorporationLead == [company_name |-> <<"A","c","m","e"," ","C","o","r","p","o","r","a","t","i","o","n">>, company_domain |-> AcmeCom]

\* fixed input lists run besides the lists drawn from CompanyLeads
CompanyScenarios ==
    {<<AcmeCorpLead, AcmeCorporationLead>>,
     <<[company_name |-> Acme], [company_name |-> NameY],
       [company_name |-> AcmeInc], [company_name |-> NameZ]>>,
     <<[company_name |-> NameY], [company_name |-> NameX, company_domain |-> AcmeCom],
       [company_name |-> NameZ, company_domain |-> BetaIo]>>}

Thresholds == {<<85, 100>>, <<84, 100>>, <<1, 2>>}

InitCompany ==
    /\ pc = "start"
    /\ leads \in UNION {[1..n -> CompanyLeads] : n \in 0..MaxLeads} \cup CompanyScenarios
    /\ threshold \in Thresholds
    /\ groups = <<>>
    /\ lead_to_group = <<>>
    /\ merged_leads = <<>>
    /\ NormIdle
    /\ summary = <<>>
    /\ BatchIdle

FindDuplicates ==
    /\ pc = "start"
    /\ \E found \in {find_duplicates(leads, threshold)} :
          /\ groups' = found.groups
          /\ lead_to_group' = found.lead_to_group
    /\ pc' = "found"
    /\ UNCHANGED <<name, once, twice, leads, threshold, merged_leads, summary, batchVars>>

MergeDuplicates ==
    /\ pc = "found"
    /\ merged_leads' = merge_duplicates(leads, groups, lead_to_group)
    /\ pc' = "merged"
    /\ UNCHANGED <<name, once, twice, leads, threshold, groups, lead_to_group, summary, batchVars>>

NextCompany == FindDuplicates \/ MergeDuplicates

SpecCompany == InitCompany /\ [][NextCompany]_vars

(***************************************************************************)
(* Properties of the normalizer                                            *)
(***************************************************************************)

\* C2: normalize_company_name is idempotent: normalizing a normalized name changes
\* nothing further.
NormalizeIdempotent == pc = "twice" => twice = once

AcmeSolutionsInc ==
    <<"A","c","m","e"," ","S","o","l","u","t","i","o","n","s",","," ","I","n","c",".">>

\* C3: normalize_company_name("Acme Solutions, Inc.") equals
\* normalize_company_name("Acme"): the suffix "Inc." and the noise word "Solutions"
\* are both removed.
SuffixAndNoiseStripped ==
    (pc = "once" /\ name = AcmeSolutionsInc) => once = normalize_company_name(Acme)

(***************************************************************************)
(* Properties of the company deduplicator                                  *)
(***************************************************************************)

\* number of input records an output list accounts for: the count annotation of
\* a record that carries one, 1 for a record that carries none
RECURSIVE Accounted(_, _)
Accounted(out, countKey) ==
    IF out = <<>> THEN 0
    ELSE (IF countKey \in DOMAIN Head(out) THEN Head(out)[countKey] ELSE 1)
         + Accounted(Tail(out), countKey)

\* C1: after find_duplicates and merge_duplicates, the sum of _duplicate_count over
\* the output records that carry it plus the number of output records without it
\* equals the number of input records.
CompanyConservation ==
    pc = "merged" => Accounted(merged_leads, "_duplicate_count") = Len(leads)

\* C1 witness: a merged run with a group and an ungrouped record
CompanyConservationWitness ==
    /\ pc = "merged"
    /\ Len(leads) = 3
    /\ Len(merged_leads) = 2
    /\ \E r \in Range(merged_leads) : "_duplicate_count" \notin DOMAIN r
    /\ \E r \in Range(merged_leads) :
          "_duplicate_count" \in DOMAIN r /\ r["_duplicate_count"] = 2

IsPrefix(p, q) == Len(p) <= Len(q) /\ SubSeq(q, 1, Len(p)) = p

IsFuzzyGroup(g) == IsPrefix(<<"f","u","z","z","y","_">>, g)

IsDomainGroup(g) == IsPrefix(<<"d","o","m","a","i","n","_">>, g)

NormalizedName(i) == normalize_company_name(GetOrEmpty(leads[i + 1], "company_name"))

\* record i went into the second pass: the first pass put it in no domain group
InSecondPass(i) == i \notin DOMAIN lead_to_group \/ IsFuzzyGroup(lead_to_group[i])

\* the index that collected record i in the second pass, i itself when none did
CollectedBy(i) == IF i \in DOMAIN lead_to_group THEN groups[lead_to_group[i]][1] ELSE i

SameGroup(i, j) ==
    /\ i \in DOMAIN lead_to_group
    /\ j \in DOMAIN lead_to_group
    /\ lead_to_group[i] = lead_to_group[j]

\* 2 * M / T of two non-empty strings, M the number of matched characters
Similarity(a, b) == <<2 * MatchCount(a, 1, Len(a), b, 1, Len(b)), Len(a) + Len(b)>>

\* C7: a later ungrouped record j with a non-empty normalized name joins anchor i's
\* fuzzy group if and only if the similarity 2*M/T of the two normalized names is
\* >= threshold: a pair at exactly 0.84 is not grouped under 0.85, one at exactly
\* 0.85 is.
ThresholdBoundary ==
    pc = "found" =>
        \A i, j \in 0..(Len(leads) - 1) :
            ( /\ i < j
              /\ InSecondPass(i) /\ InSecondPass(j)
              /\ NormalizedName(i) # <<>> /\ NormalizedName(j) # <<>>
              /\ CollectedBy(i) = i          \* i is an anchor
              /\ CollectedBy(j) >= i )       \* j is still ungrouped when i anchors
            => LET sim == Similarity(NormalizedName(i), NormalizedName(j))
               IN  /\ SameGroup(i, j) <=> sim[1] * threshold[2] >= threshold[1] * sim[2]
                   /\ (threshold = <<85, 100>> /\ sim[1] * 100 = 84 * sim[2]) => ~SameGroup(i, j)
                   /\ (threshold = <<85, 100>> /\ sim[1] * 100 = 85 * sim[2]) => SameGroup(i, j)

\* C7 witness: under 0.85, an anchor with one record at exactly 0.85, grouped, and
\* one at exactly 0.84, not grouped
ThresholdBoundaryWitness ==
    /\ pc = "found"
    /\ threshold = <<85, 100>>
    /\ \E i, j, k \in 0..(Len(leads) - 1) :
          /\ i < j /\ i < k
          /\ InSecondPass(i) /\ InSecondPass(j) /\ InSecondPass(k)
          /\ NormalizedName(i) # <<>> /\ NormalizedName(j) # <<>> /\ NormalizedName(k) # <<>>
          /\ LET sj == Similarity(NormalizedName(i), NormalizedName(j))
                 sk == Similarity(NormalizedName(i), NormalizedName(k))
             IN  /\ sj[1] * 100 = 85 * sj[2]
                 /\ sk[1] * 100 = 84 * sk[2]
          /\ SameGroup(i, j)
          /\ ~SameGroup(i, k)

\* the completeness score as the specification words it
StatedScore(l) ==
    (IF Truthy(Get(l, "email")) THEN 2 ELSE 0)
    + Cardinality({k \in {"first_name", "last_name", "title", "linkedin_url", "phone",
                          "company_domain", "employee_count", "industry"} :
                      Truthy(Get(l, k))})

\* C8: the primary of a group is a member of the highest completeness score, so the
\* merged record keeps that member's non-empty values; for A (email, title) and
\* B (email, title, linkedin_url, phone) the merged linkedin_url and phone are B's;
\* and every key non-empty in some member is non-empty in the merged record.
CompletenessWinner ==
    pc = "merged" =>
        \A x \in 1..Len(merged_leads) :
            LET r == merged_leads[x]
            IN  "_duplicate_group" \in DOMAIN r =>
                LET members == {leads[i + 1] : i \in Range(groups[r["_duplicate_group"]])}
                IN  /\ \E m \in members :
                          /\ \A o \in members : StatedScore(o) <= StatedScore(m)
                          /\ \A k \in DOMAIN m : Truthy(m[k]) => r[k] = m[k]
                    /\ members = {LeadA, LeadB} =>
                          /\ r["linkedin_url"] = LeadB["linkedin_url"]
                          /\ r["phone"] = LeadB["phone"]
                    /\ \A m \in members : \A k \in DOMAIN m :
                          Truthy(m[k]) => Truthy(r[k])

\* C8 witness: A and B were merged, A standing first in the input
CompletenessWinnerWitness ==
    /\ pc = "merged"
    /\ leads = <<LeadA, LeadB>>
    /\ Len(merged_leads) = 1
    /\ merged_leads[1]["_duplicate_count"] = 2
    /\ merged_leads[1]["title"] = LeadB["title"]

CompanyDomain(i) == Strip(Lower(leads[i + 1]["company_domain"]))

HasCompanyDomain(i) ==
    /\ Truthy(Get(leads[i + 1], "company_domain"))
    /\ CompanyDomain(i) # <<>>
    /\ CompanyDomain(i) \notin GENERIC_DOMAINS

\* C9: the first pass never places two records with different, non-generic
\* company_domain values (lowercased and trimmed) in the same domain_ group.
NoMergeAcrossDomains ==
    pc = "found" =>
        \A g \in DOMAIN groups : IsDomainGroup(g) =>
            \A i, j \in Range(groups[g]) :
                (HasCompanyDomain(i) /\ HasCompanyDomain(j))
                    => CompanyDomain(i) = CompanyDomain(j)

\* C9 witness: two records of the same normalized name and different non-generic
\* company_domain values stay apart, while one of them is in a domain_ group with a
\* record whose company_domain differs from its own only by case and a space
NoMergeAcrossDomainsWitness ==
    /\ pc = "found"
    /\ \E i, j, k \in 0..(Len(leads) - 1) :
          /\ HasCompanyDomain(i) /\ HasCompanyDomain(j) /\ HasCompanyDomain(k)
          /\ CompanyDomain(i) # CompanyDomain(j)
          /\ NormalizedName(i) = NormalizedName(j)
          /\ ~SameGroup(i, j)
          /\ SameGroup(i, k)
          /\ leads[i + 1]["company_domain"] # leads[k + 1]["company_domain"]

\* the 0-based indices of the leads whose extracted domain is d
SharingDomain(d) == {k \in 0..(Len(leads) - 1) : extract_domain(leads[k + 1]) = d}

\* the positions of the output records annotated with the group id g
TaggedWith(g) ==
    {m \in 1..Len(merged_leads) :
        /\ "_duplicate_group" \in DOMAIN merged_leads[m]
        /\ merged_leads[m]["_duplicate_group"] = g}

DomainAcmeCom == <<"d","o","m","a","i","n","_","a","c","m","e",".","c","o","m">>

\* C11: the records that share a non-generic extracted domain d, two or more of
\* them, form the group "domain_" + d and are merged into exactly one output
\* record, annotated with _duplicate_count = the number of these records and
\* _duplicate_group = "domain_" + d; the leads (Acme Corp, acme.com) and
\* (Acme Corporation, acme.com) give one record with count 2 and group
\* domain_acme.com.
SharedDomainMerged ==
    pc = "merged" =>
        /\ \A i \in 1..Len(leads) :
              LET d  == extract_domain(leads[i])
                  id == <<"d","o","m","a","i","n","_">> \o d
              IN  (/\ d # None /\ d # <<>> /\ d \notin GENERIC_DOMAINS
                   /\ Cardinality(SharingDomain(d)) >= 2) =>
                      /\ id \in DOMAIN groups
                      /\ Range(groups[id]) = SharingDomain(d)
                      /\ Cardinality(TaggedWith(id)) = 1
                      /\ \A m \in TaggedWith(id) :
                            merged_leads[m]["_duplicate_count"] =
                                Cardinality(SharingDomain(d))
                      /\ Len(merged_leads) <= Len(leads) - (Cardinality(SharingDomain(d)) - 1)
        /\ leads = <<AcmeCorpLead, AcmeCorporationLead>> =>
              /\ Len(merged_leads) = 1
              /\ merged_leads[1]["_duplicate_count"] = 2
              /\ merged_leads[1]["_duplicate_group"] = DomainAcmeCom

\* C11 witness: the two Acme leads were merged into one record of domain_acme.com
SharedDomainMergedWitness ==
    /\ pc = "merged"
    /\ leads = <<AcmeCorpLead, AcmeCorporationLead>>
    /\ Len(merged_leads) = 1
    /\ TaggedWith(DomainAcmeCom) = {1}
    /\ merged_leads[1]["_duplicate_count"] = 2

\* a / b >= c / d for rationals <<a, b>> and <<c, d>> with positive denominators
AtLeast(x, y) == x[1] * y[2] >= y[1] * x[2]

\* C18: in every fuzzy_ group the first member, the anchor, is the lowest index of
\* the group, and every other member has a non-empty normalized name whose
\* similarity to the anchor's non-empty normalized name is >= threshold; nothing
\* is required between two members that are not the anchor.
AnchorInvariant ==
    pc \in {"found", "merged"} =>
        \A g \in DOMAIN groups :
            IsFuzzyGroup(g) =>
                LET anchor == groups[g][1]
                IN  /\ \A k \in 2..Len(groups[g]) : anchor < groups[g][k]
                    /\ NormalizedName(anchor) # <<>>
                    /\ \A k \in 2..Len(groups[g]) :
                          /\ NormalizedName(groups[g][k]) # <<>>
                          /\ AtLeast(Similarity(NormalizedName(anchor),
                                                NormalizedName(groups[g][k])),
                                     threshold)

\* C18 witness: a fuzzy group of an anchor and two members whose similarity to
\* each other is below the threshold
AnchorInvariantWitness ==
    /\ pc = "found"
    /\ \E g \in DOMAIN groups :
          /\ IsFuzzyGroup(g)
          /\ Len(groups[g]) = 3
          /\ ~AtLeast(Similarity(NormalizedName(groups[g][2]), NormalizedName(groups[g][3])),
                      threshold)
          /\ ~AtLeast(Similarity(NormalizedName(groups[g][3]), NormalizedName(groups[g][2])),
                      threshold)

\* the normalized names of records i and j are similar, whichever comes first
Similar(i, j) ==
    /\ AtLeast(Similarity(NormalizedName(i), NormalizedName(j)), threshold)
    /\ AtLeast(Similarity(NormalizedName(j), NormalizedName(i)), threshold)

Dissimilar(i, j) ==
    /\ ~AtLeast(Similarity(NormalizedName(i), NormalizedName(j)), threshold)
    /\ ~AtLeast(Similarity(NormalizedName(j), NormalizedName(i)), threshold)

\* records a, b, c are the whole list, have no domain, and b is similar to a and
\* to c while a and c are not similar
Chain(a, b, c) ==
    /\ {a, b, c} = {0, 1, 2}
    /\ Len(leads) = 3
    /\ \A i \in {0, 1, 2} : extract_domain(leads[i + 1]) = None /\ NormalizedName(i) # <<>>
    /\ Similar(a, b)
    /\ Similar(b, c)
    /\ Dissimilar(a, c)

Fuzzy0 == <<"f","u","z","z","y","_","0">>

\* C19: three records A, B, C without domain, B similar to A and to C, A not
\* similar to C: with B first in the list find_duplicates puts the three in one
\* fuzzy group; with A first it groups A and B only and leaves C ungrouped.
OrderDependence ==
    pc = "found" =>
        \A a, b, c \in {0, 1, 2} :
            Chain(a, b, c) =>
                /\ b = 0 => /\ DOMAIN groups = {Fuzzy0}
                            /\ groups[Fuzzy0] = <<0, 1, 2>>
                /\ a = 0 => /\ DOMAIN groups = {Fuzzy0}
                            /\ Range(groups[Fuzzy0]) = {a, b}
                            /\ c \notin DOMAIN lead_to_group

\* C19 witness: NameX first collects NameY and NameZ under the threshold 0.84,
\* and the same leads with NameY first give the group of NameY and NameX only
OrderDependenceWitness ==
    /\ pc = "found"
    /\ threshold = <<84, 100>>
    /\ leads = <<[company_name |-> NameX], [company_name |-> NameY], [company_name |-> NameZ]>>
    /\ Chain(1, 0, 2)
    /\ groups[Fuzzy0] = <<0, 1, 2>>
    /\ find_duplicates(<<[company_name |-> NameY], [company_name |-> NameX],
                         [company_name |-> NameZ]>>, threshold).groups
           = (Fuzzy0 :> <<0, 1>>)

\* C27: when find_duplicates has returned, no two records i < j are both in no
\* group, both with a non-empty normalized company name, and with
\* fuzzy_match(normalized(i), normalized(j)) >= threshold: the second pass has
\* linked every such pair.
PhaseTwoMaximal ==
    pc \in {"found", "merged"} =>
        \A i, j \in 0..(Len(leads) - 1) :
            (/\ i < j
             /\ i \notin DOMAIN lead_to_group
             /\ j \notin DOMAIN lead_to_group
             /\ NormalizedName(i) # <<>>
             /\ NormalizedName(j) # <<>>)
            => ~AtLeast(fuzzy_match(NormalizedName(i), NormalizedName(j)), threshold)

\* C27 witness: two records with non-empty normalized names that share letters
\* are left ungrouped, their similarity being under the threshold, beside a
\* record that the second pass has grouped
PhaseTwoMaximalWitness ==
    /\ pc = "found"
    /\ \E g \in DOMAIN groups : IsFuzzyGroup(g)
    /\ \E i, j \in 0..(Len(leads) - 1) :
          /\ i < j
          /\ i \notin DOMAIN lead_to_group
          /\ j \notin DOMAIN lead_to_group
          /\ NormalizedName(i) # <<>>
          /\ NormalizedName(j) # <<>>
          /\ fuzzy_match(NormalizedName(i), NormalizedName(j))[1] > 0

\* record i has a non-generic company_domain and no other record of the list has
\* its extracted domain
UniqueDomain(i) ==
    /\ HasCompanyDomain(i)
    /\ SharingDomain(extract_domain(leads[i + 1])) = {i}

\* records i < j have unique domains, non-empty normalized names, and the
\* similarity the second pass computes for them is >= threshold
SimilarAcrossDomains(i, j) ==
    /\ i < j
    /\ UniqueDomain(i)
    /\ UniqueDomain(j)
    /\ NormalizedName(i) # <<>>
    /\ NormalizedName(j) # <<>>
    /\ AtLeast(fuzzy_match(NormalizedName(i), NormalizedName(j)), threshold)

\* record x is in a group whose anchor stands before index i
CollectedBefore(x, i) == x \in DOMAIN lead_to_group /\ groups[lead_to_group[x]][1] < i

\* a record with a unique non-generic domain is in no domain_ group
UniqueStaysCandidate ==
    \A i \in 0..(Len(leads) - 1) :
        UniqueDomain(i) => (i \notin DOMAIN lead_to_group \/ IsFuzzyGroup(lead_to_group[i]))

\* C28 as stated: a record whose non-generic domain no other record shares stays
\* out of the domain_ groups, and two records with different unique non-generic
\* company_domain values are in one fuzzy_ group whenever the similarity of their
\* normalized names is >= threshold.
DomainsIgnoredWhenever ==
    pc = "found" =>
        /\ UniqueStaysCandidate
        /\ \A i, j \in 0..(Len(leads) - 1) :
              SimilarAcrossDomains(i, j) =>
                  SameGroup(i, j) /\ IsFuzzyGroup(lead_to_group[i])

\* C28: a record whose non-generic domain no other record shares stays out of
\* the domain_ groups, and two records with different unique non-generic
\* company_domain values whose normalized names have similarity >= threshold are
\* in one fuzzy_ group, anchored by the earlier of the two, unless a record
\* standing before both has collected one of them.
DomainsIgnored ==
    pc = "found" =>
        /\ UniqueStaysCandidate
        /\ \A i, j \in 0..(Len(leads) - 1) :
              (/\ SimilarAcrossDomains(i, j)
               /\ ~CollectedBefore(i, i)
               /\ ~CollectedBefore(j, i))
              => /\ SameGroup(i, j)
                 /\ IsFuzzyGroup(lead_to_group[i])
                 /\ groups[lead_to_group[i]][1] = i

\* C28 witness: two records with different unique company_domain values are in
\* one fuzzy_ group
DomainsIgnoredWitness ==
    /\ pc = "found"
    /\ \E i, j \in 0..(Len(leads) - 1) :
          /\ SimilarAcrossDomains(i, j)
          /\ CompanyDomain(i) # CompanyDomain(j)
          /\ SameGroup(i, j)
          /\ IsFuzzyGroup(lead_to_group[i])
          /\ groups[lead_to_group[i]] = <<i, j>>

(***************************************************************************)
(* Contact deduplicator runs: find_contact_duplicates, then                *)
(* merge_contact_duplicates                                                *)
(***************************************************************************)

MaxContacts == 3

JaneSmith == <<"J","a","n","e"," ","S","m","i","t","h">>

JohnDoeFoo == [email |-> <<"j","o","h","n",".","d","o","e","@","f","o","o",".","c","o","m">>]

JDoeFoo == [email |-> <<"j","d","o","e","@","f","o","o",".","c","o","m">>]

JaneA ==
    [email |-> <<"a","@","g","m","a","i","l",".","c","o","m">>,
     full_name |-> JaneSmith, company_name |-> Acme]

JaneB ==
    [email |-> <<"b","@","g","m","a","i","l",".","c","o","m">>,
     full_name |-> JaneSmith, company_name |-> Acme]

ContactLeads == {
    JohnDoeFoo,
    JDoeFoo,
    JaneA,
    JaneB,
    [company_domain |-> GmailCom, full_name |-> JaneSmith],
    [email |-> <<"a","@","b","@","c",".","c","o","m">>],
    [email |-> None, full_name |-> None, company_domain |-> None, company_name |-> None],
    [email |-> <<"J","o","h","n",".","D","o","e","+","x","@","f","o","o",".","c","o","m"," ">>,
     title |-> <<"C","E","O">>],
    [email |-> <<"j","o","h","n","@","f","o","o",".","c","o","m">>,
     first_name |-> <<"J","a","n","e">>, last_name |-> <<"S","m","i","t","h">>,
     company_name |-> <<"a","c","m","e"," ">>],
    [first_name |-> <<"j","a","n","e">>, last_name |-> <<"S","i","m","s">>,
     company_name |-> Acme, phone |-> <<"5","5","5">>] }

\* the second docstring example of emails_are_aliases
JohnCompany == [email |-> <<"j","o","h","n","@","c","o","m","p","a","n","y",".","c","o","m">>]

JDotDoeCompany == [email |-> <<"j",".","d","o","e","@","c","o","m","p","a","n","y",".","c","o","m">>]

\* fixed input lists run besides the lists drawn from ContactLeads
\* the example of the first pass: a "+" tag, capitals and surrounding blanks
JohnTest == [email |-> <<"j","o","h","n","+","t","e","s","t","@","c","o",".","c","o","m">>]

JohnCO == [email |-> <<" ","J","o","h","n","@","C","O",".","c","o","m"," ">>]

ContactScenarios == {<<JohnCompany, JDotDoeCompany>>, <<JohnTest, JohnCO>>}

InitContact ==
    /\ pc = "start"
    /\ leads \in UNION {[1..n -> ContactLeads] : n \in 0..MaxContacts} \cup ContactScenarios
    /\ threshold = <<85, 100>>
    /\ groups = <<>>
    /\ lead_to_group = <<>>
    /\ merged_leads = <<>>
    /\ NormIdle
    /\ summary = <<>>
    /\ BatchIdle

\* find_contact_duplicates returns its groups, or an exception leaves it
FindContactDuplicates ==
    /\ pc = "start"
    /\ \E found \in {find_contact_duplicates(leads)} :
          IF found.raised
          THEN /\ pc' = "raised"
               /\ UNCHANGED <<groups, lead_to_group>>
          ELSE /\ pc' = "found"
               /\ groups' = found.groups
               /\ lead_to_group' = found.lead_to_group
    /\ UNCHANGED <<name, once, twice, leads, threshold, merged_leads, summary, batchVars>>

MergeContactDuplicates ==
    /\ pc = "found"
    /\ merged_leads' = merge_contact_duplicates(leads, groups, lead_to_group)
    /\ pc' = "merged"
    /\ UNCHANGED <<name, once, twice, leads, threshold, groups, lead_to_group, summary, batchVars>>

NextContact == FindContactDuplicates \/ MergeContactDuplicates

SpecContact == InitContact /\ [][NextContact]_vars

(***************************************************************************)
(* Properties of the contact deduplicator                                  *)
(***************************************************************************)

IsAliasGroup(g) == IsPrefix(<<"a","l","i","a","s","_">>, g)

IsNameGroup(g) == IsPrefix(<<"n","a","m","e","_">>, g)

\* leads a and j share a company signal that is no generic domain: the same
\* non-generic company_domain, the same non-generic email domain, or the same
\* company name
NonGenericGround(a, j) ==
    \/ /\ SameCompanyDomain(a, j)
       /\ Lower(a["company_domain"]) \notin GENERIC_DOMAINS
    \/ SameEmailDomain(a, j)
    \/ SameCompanyName(a, j)

\* C4: a generic domain (gmail.com, yahoo.com, hotmail.com, outlook.com) never
\* groups two records: no alias_ group is formed at a generic email domain, and
\* no record joins a name_ group when the only company signal it shares with the
\* anchor is a generic company_domain or email domain.
GenericDomainExclusion ==
    pc = "found" =>
        \A g \in DOMAIN groups :
            /\ IsAliasGroup(g) =>
                  \A i \in Range(groups[g]) :
                      EmailDomain(leads[i + 1]["email"]) \notin GENERIC_DOMAINS
            /\ IsNameGroup(g) =>
                  \A k \in 2..Len(groups[g]) :
                      NonGenericGround(leads[groups[g][1] + 1], leads[groups[g][k] + 1])

\* C5: the leads john.doe@foo.com and jdoe@foo.com are grouped by the alias pass
\* and merged into one record with _contact_duplicate_count = 2.
AliasScenario ==
    (pc = "merged" /\ leads = <<JohnDoeFoo, JDoeFoo>>) =>
        /\ Len(merged_leads) = 1
        /\ merged_leads[1]["_contact_duplicate_count"] = 2
        /\ IsAliasGroup(merged_leads[1]["_contact_duplicate_group"])

\* C6: no exception leaves the matching core, whatever the input records are:
\* null-valued fields and emails with no or several "@" included.
NoExceptionPropagates == pc # "raised"

Name0 == <<"n","a","m","e","_","0">>

\* C10: the two Jane Smith leads at gmail.com are left ungrouped by the exact-email
\* pass and by the alias pass, are grouped by the name pass under name_0, and are
\* merged into one record.
NameScenario ==
    (pc # "start" /\ leads = <<JaneA, JaneB>>) =>
        /\ pc \in {"found", "merged"}
        /\ DOMAIN EmailPass(leads).lead_to_group = {}
        /\ DOMAIN AliasPass(leads, {0, 1}, DomainOrder(leads, {0, 1}), 1,
                            EmailPass(leads)).lead_to_group = {}
        /\ DOMAIN groups = {Name0}
        /\ groups[Name0] = <<0, 1>>
        /\ DOMAIN lead_to_group = {0, 1}
        /\ lead_to_group[0] = Name0 /\ lead_to_group[1] = Name0
        /\ pc = "merged" =>
              /\ Len(merged_leads) = 1
              /\ merged_leads[1]["_contact_duplicate_count"] = 2
              /\ merged_leads[1]["_contact_duplicate_group"] = Name0

\* C10 witness: the two leads were merged into one record of the group name_0
NameScenarioWitness ==
    /\ pc = "merged"
    /\ leads = <<JaneA, JaneB>>
    /\ Len(merged_leads) = 1
    /\ merged_leads[1]["_contact_duplicate_group"] = Name0
    /\ merged_leads[1]["email"] = JaneA["email"]

Alias0 == <<"a","l","i","a","s","_","0">>

\* C20: emails_are_aliases holds for john@company.com and j.doe@company.com, which
\* share no name token but where the single letter j is the first letter of john:
\* the alias pass groups the two leads.
InitialRule ==
    (pc = "found" /\ leads = <<JohnCompany, JDotDoeCompany>>) =>
        /\ emails_are_aliases(JohnCompany["email"], JDotDoeCompany["email"])
        /\ DOMAIN groups = {Alias0}
        /\ groups[Alias0] = <<0, 1>>

IsEmailGroup(g) == IsPrefix(<<"e","m","a","i","l","_">>, g)

\* the email of lead i (0-based), "" when the key is absent
EmailOf(i) == GetOrEmpty(leads[i + 1], "email")

\* the email lowercased and trimmed
Trimmed(email) == Strip(Lower(email))

\* the position of the first "@" of a string that has one
FirstAt(s) == Nth({k \in DOMAIN s : s[k] = "@"}, 1)

\* the email has an "@" followed by a non-empty domain
HasDomainPart(email) ==
    /\ Truthy(email)
    /\ \E k \in DOMAIN Trimmed(email) : Trimmed(email)[k] = "@"
    /\ FirstAt(Trimmed(email)) < Len(Trimmed(email))

\* the normal form as stated: lowercased, trimmed, the local part cut at its
\* first "+"
StatedNormalForm(email) ==
    LET e     == Trimmed(email)
        at    == FirstAt(e)
        local == SubSeq(e, 1, at - 1)
        plus  == {k \in DOMAIN local : local[k] = "+"}
        kept  == IF plus = {} THEN local ELSE SubSeq(local, 1, Nth(plus, 1) - 1)
    IN  kept \o SubSeq(e, at, Len(e))

InThirdPass(i) == i \notin DOMAIN lead_to_group \/ IsNameGroup(lead_to_group[i])

\* the record has a non-empty full_name, or a non-empty first and last name
Named(lead) ==
    \/ ("full_name" \in DOMAIN lead /\ lead["full_name"] \notin {None, <<>>})
    \/ /\ "first_name" \in DOMAIN lead /\ lead["first_name"] \notin {None, <<>>}
       /\ "last_name" \in DOMAIN lead /\ lead["last_name"] \notin {None, <<>>}

\* same_company and names_match both hold for records i and j
Linkable(i, j) ==
    /\ same_company(leads[i + 1], leads[j + 1])
    /\ names_match(leads[i + 1], leads[j + 1])

\* C22: in every name_ group the first member is the lowest index and has a
\* full_name or a first and a last name, and every other member satisfies
\* same_company and names_match with it; a record j that is still ungrouped when
\* a named record i < j anchors joins i's group exactly when both hold.
NamePassInvariant ==
    pc = "found" =>
        /\ \A g \in DOMAIN groups :
              IsNameGroup(g) =>
                  /\ Named(leads[groups[g][1] + 1])
                  /\ \A k \in 2..Len(groups[g]) :
                        /\ groups[g][1] < groups[g][k]
                        /\ Linkable(groups[g][1], groups[g][k])
        /\ \A i, j \in 0..(Len(leads) - 1) :
              ( /\ i < j
                /\ InThirdPass(i) /\ InThirdPass(j)
                /\ Named(leads[i + 1])
                /\ CollectedBy(i) = i
                /\ CollectedBy(j) >= i )
              => (SameGroup(i, j) <=> Linkable(i, j))

\* C22 witness: a name_ group whose anchor left a later record ungrouped that
\* matches its name but not its company
NamePassInvariantWitness ==
    /\ pc = "found"
    /\ \E g \in DOMAIN groups :
          /\ IsNameGroup(g)
          /\ \E j \in 0..(Len(leads) - 1) :
                /\ j > groups[g][1]
                /\ j \notin DOMAIN lead_to_group
                /\ names_match(leads[groups[g][1] + 1], leads[j + 1])
                /\ ~same_company(leads[groups[g][1] + 1], leads[j + 1])

\* C26: after find_contact_duplicates and merge_contact_duplicates the counts of
\* the merged records plus the number of records without a count add up to the
\* number of input records, whichever of the three passes made the groups.
ContactConservation ==
    pc = "merged" =>
        Accounted(merged_leads, "_contact_duplicate_count") = Len(leads)

\* C26 witness: three records merged into two, the pair grouped by the name pass
ContactConservationWitness ==
    /\ pc = "merged"
    /\ Len(leads) = 3
    /\ Len(merged_leads) = 2
    /\ \E g \in DOMAIN groups : IsNameGroup(g)
    /\ \E m \in 1..2 : /\ "_contact_duplicate_count" \in DOMAIN merged_leads[m]
                       /\ merged_leads[m]["_contact_duplicate_count"] = 2

(***************************************************************************)
(* deduplicate_companies and deduplicate_contacts: the two deduplicators   *)
(* run on the same input lists                                             *)
(***************************************************************************)

MaxInput == 3

\* the summary with a deduplicated_count never below 1
contact_deduplication_summary_floor(original_count, merged, gs) ==
    [original_count     |-> original_count,
     deduplicated_count |-> IF merged = <<>> THEN 1 ELSE Len(merged),
     duplicates_removed |-> original_count - (IF merged = <<>> THEN 1 ELSE Len(merged)),
     duplicate_groups   |-> Cardinality(DOMAIN gs)]

\* the summary of deduplicate_contacts
contact_deduplication_summary(original_count, merged, gs) ==
    [original_count     |-> original_count,
     deduplicated_count |-> Len(merged),
     duplicates_removed |-> original_count - Len(merged),
     duplicate_groups   |-> Cardinality(DOMAIN gs)]

\* the summary with duplicates_removed counting the groups
deduplication_summary_groups(original_count, merged, gs, th) ==
    [original_count     |-> original_count,
     deduplicated_count |-> Len(merged),
     duplicates_removed |-> Cardinality(DOMAIN gs),
     duplicate_groups   |-> Cardinality(DOMAIN gs),
     threshold_used     |-> th]

\* the summary of deduplicate_companies
deduplication_summary(original_count, merged, gs, th) ==
    [original_count     |-> original_count,
     deduplicated_count |-> Len(merged),
     duplicates_removed |-> original_count - Len(merged),
     duplicate_groups   |-> Cardinality(DOMAIN gs),
     threshold_used     |-> th]

JohnPlus == [email |-> <<"J","o","h","n",".","D","o","e","+","x","@","f","o","o",".","c","o","m"," ">>, title |-> <<"C","E","O">>]

DoeJohn == [email |-> <<"d","o","e","_","j","o","h","n","@","f","o","o",".","c","o","m">>, full_name |-> JaneSmith, company_name |-> Acme]

AcmeMail ==
    [company_name |-> AcmeInc, email |-> <<"c","@","a","c","m","e",".","c","o","m">>]

\* a record without any key
EmptyLead == <<>>

\* a record with the identity keys present and empty
BlankLead ==
    [email |-> <<>>, company_name |-> <<>>, company_domain |-> <<>>,
     full_name |-> <<>>, first_name |-> <<>>, last_name |-> <<>>]

TwoAts == [email |-> <<"a","@","b","@","c",".","c","o","m">>]

SharedLeads ==
    {LeadA, LeadB, JaneA, JaneB, JohnDoeFoo, JohnPlus, DoeJohn, AcmeMail,
     EmptyLead, BlankLead, TwoAts}

XFooCom == <<"x","@","f","o","o",".","c","o","m">>

\* three records of one email: FillLow and FillMid both have a phone, FillTop,
\* the most complete one, has none; FillMid and FillTop differ in title
FillLow == [email |-> XFooCom, phone |-> <<"1","1","1">>]

FillMid == [email |-> XFooCom, phone |-> <<"2","2","2">>, title |-> <<"C","T","O">>]

FillTop ==
    [email |-> XFooCom, title |-> <<"C","E","O">>, linkedin_url |-> <<"l","i">>,
     first_name |-> <<"j","o">>]

\* fixed input lists run besides the lists drawn from SharedLeads
\* six records that the contact deduplicator groups in its three passes, two by
\* two, and the company deduplicator in two domain groups and a fuzzy group
ThreePairs ==
    <<JohnTest, JohnCO, JohnDoeFoo,
      [email |-> <<"d","o","e",".","j","o","h","n","@","f","o","o",".","c","o","m">>],
      JaneA, JaneB>>

DedupScenarios == {<<FillLow, FillMid, FillTop>>, ThreePairs}

InitDedup ==
    /\ pc = "start"
    /\ leads \in UNION {[1..n -> SharedLeads] : n \in 0..MaxInput} \cup DedupScenarios
    /\ threshold = <<85, 100>>
    /\ groups = <<>>
    /\ lead_to_group = <<>>
    /\ merged_leads = <<>>
    /\ summary = <<>>
    /\ NormIdle
    /\ BatchIdle

\* deduplicate_companies: find_duplicates, merge_duplicates, the summary
DeduplicateCompanies ==
    /\ pc = "start"
    /\ \E found \in {find_duplicates(leads, threshold)} :
          \E merged \in {merge_duplicates(leads, found.groups, found.lead_to_group)} :
              /\ groups' = found.groups
              /\ lead_to_group' = found.lead_to_group
              /\ merged_leads' = merged
              /\ summary' = deduplication_summary(Len(leads), merged, found.groups, threshold)
    /\ pc' = "companies_done"
    /\ UNCHANGED <<name, once, twice, leads, threshold, batchVars>>

\* deduplicate_contacts: find_contact_duplicates, merge_contact_duplicates, the
\* summary; an exception of find_contact_duplicates leaves the function
DeduplicateContacts ==
    /\ pc = "start"
    /\ \E found \in {find_contact_duplicates(leads)} :
          IF found.raised
          THEN /\ pc' = "raised"
               /\ UNCHANGED <<groups, lead_to_group, merged_leads, summary>>
          ELSE \E merged \in {merge_contact_duplicates(leads, found.groups,
                                                       found.lead_to_group)} :
                  /\ pc' = "contacts_done"
                  /\ groups' = found.groups
                  /\ lead_to_group' = found.lead_to_group
                  /\ merged_leads' = merged
                  /\ summary' = contact_deduplication_summary(Len(leads), merged,
                                                              found.groups)
    /\ UNCHANGED <<name, once, twice, leads, threshold, batchVars>>

NextDedup == DeduplicateCompanies \/ DeduplicateContacts

SpecDedup == InitDedup /\ [][NextDedup]_vars

(***************************************************************************)
(* Properties of both deduplicators                                        *)
(***************************************************************************)

\* a deduplicator returned
Done == pc \in {"companies_done", "contacts_done"}

\* the annotation keys of the deduplicator that ran
DoneCountKey ==
    IF pc = "companies_done" THEN "_duplicate_count" ELSE "_contact_duplicate_count"

DoneGroupKey ==
    IF pc = "companies_done" THEN "_duplicate_group" ELSE "_contact_duplicate_group"

Lowest(S) == CHOOSE x \in S : \A y \in S : x <= y

\* the input indices an output record stands for: every ungrouped index and the
\* lowest index of every group
Origins ==
    {i \in 0..(Len(leads) - 1) :
        \/ i \notin DOMAIN lead_to_group
        \/ i = Lowest(Range(groups[lead_to_group[i]]))}

\* C12: the output list holds one record per group and one per ungrouped record,
\* in input order: the k-th output record is the k-th ungrouped-or-lowest-member
\* input index, a copy of the input record if that index is ungrouped, the merged
\* record of its group otherwise, whichever member became the primary.
OutputOrder ==
    Done =>
        /\ Len(merged_leads) = Cardinality(DOMAIN groups)
                               + Cardinality((0..(Len(leads) - 1)) \ DOMAIN lead_to_group)
        /\ Len(merged_leads) = Cardinality(Origins)
        /\ \A k \in 1..Len(merged_leads) :
              LET i == Nth(Origins, k)
              IN  IF i \notin DOMAIN lead_to_group
                  THEN merged_leads[k] = leads[i + 1]
                  ELSE /\ DoneGroupKey \in DOMAIN merged_leads[k]
                       /\ merged_leads[k][DoneGroupKey] = lead_to_group[i]
                       /\ merged_leads[k][DoneCountKey] = Len(groups[lead_to_group[i]])

\* C12 witness: LeadB, the last of three leads, is the primary of the group of
\* LeadA and LeadB; the merged record stands first, the ungrouped record second
OutputOrderWitness ==
    /\ pc = "companies_done"
    /\ leads = <<LeadA, EmptyLead, LeadB>>
    /\ Len(merged_leads) = 2
    /\ merged_leads[1]["title"] = LeadB["title"]
    /\ merged_leads[1]["_duplicate_count"] = 2
    /\ merged_leads[2] = EmptyLead

\* the keys the deduplicators read
IdentityKeys ==
    {"email", "company_name", "company_domain", "full_name", "first_name", "last_name"}

ExpectedKeys ==
    IdentityKeys \cup {"title", "linkedin_url", "phone", "employee_count", "industry"}

\* the record with every expected key it lacks added with the empty value
Completed(lead) ==
    [k \in ExpectedKeys \cup DOMAIN lead |-> IF k \in DOMAIN lead THEN lead[k] ELSE <<>>]

CompletedLeads == [k \in 1..Len(leads) |-> Completed(leads[k])]

\* the non-empty expected fields of a record
NonEmptyPart(lead) ==
    [k \in {x \in ExpectedKeys \cap DOMAIN lead : Truthy(lead[x])} |-> lead[k]]

\* the groups and the output of the deduplicator that ran, for the completed leads
OfCompleted ==
    IF pc = "companies_done"
    THEN LET found == find_duplicates(CompletedLeads, threshold)
         IN  [groups |-> found.groups, lead_to_group |-> found.lead_to_group,
              merged |-> merge_duplicates(CompletedLeads, found.groups,
                                          found.lead_to_group)]
    ELSE LET found == find_contact_duplicates(CompletedLeads)
         IN  [groups |-> found.groups, lead_to_group |-> found.lead_to_group,
              merged |-> merge_contact_duplicates(CompletedLeads, found.groups,
                                                  found.lead_to_group)]

\* some lead carries a null value or an email with two or more "@"
IllValued ==
    \E i \in 1..Len(leads) :
        \/ \E k \in DOMAIN leads[i] : leads[i][k] = None
        \/ "email" \in DOMAIN leads[i] /\ CountAt(leads[i]["email"]) >= 2

\* C13: a missing key never makes a deduplicator raise and is treated as the key
\* present with the empty value: the groups are those of the leads completed with
\* empty values, the output records have the same non-empty fields and the same
\* annotations, and a record with no domain, company name, email or name is in
\* no group.
MissingKeysTolerated ==
    /\ pc = "raised" => IllValued
    /\ Done =>
          \E c \in {OfCompleted} :
              /\ groups = c.groups
              /\ lead_to_group = c.lead_to_group
              /\ Len(merged_leads) = Len(c.merged)
              /\ \A k \in 1..Len(merged_leads) :
                    /\ NonEmptyPart(merged_leads[k]) = NonEmptyPart(c.merged[k])
                    /\ (DoneGroupKey \in DOMAIN merged_leads[k])
                           = (DoneGroupKey \in DOMAIN c.merged[k])
                    /\ DoneGroupKey \in DOMAIN merged_leads[k] =>
                          /\ merged_leads[k][DoneGroupKey] = c.merged[k][DoneGroupKey]
                          /\ merged_leads[k][DoneCountKey] = c.merged[k][DoneCountKey]
              /\ \A i \in 1..Len(leads) :
                    (\A k \in IdentityKeys : ~Truthy(Get(leads[i], k)))
                        => (i - 1) \notin DOMAIN lead_to_group

\* C13 witness: the contact deduplicator grouped two leads that lack most keys,
\* with a record without any key between them left ungrouped
MissingKeysToleratedWitness ==
    /\ pc = "contacts_done"
    /\ leads = <<JaneA, EmptyLead, JaneB>>
    /\ DOMAIN lead_to_group = {0, 2}
    /\ Len(merged_leads) = 2
    /\ merged_leads[2] = EmptyLead

\* sum(len(g) - 1 for g in groups.values()) over the groups named in ids
RECURSIVE duplicate_count(_, _)
duplicate_count(gs, ids) ==
    IF ids = {} THEN 0
    ELSE LET g == CHOOSE x \in ids : TRUE
         IN  (Len(gs[g]) - 1) + duplicate_count(gs, ids \ {g})

\* the output records that carry a group annotation
MergedRecords == {k \in 1..Len(merged_leads) : DoneGroupKey \in DOMAIN merged_leads[k]}

\* C14: in the summary a deduplicator returns, deduplicated_count is the length of
\* the output list, duplicates_removed is original_count - deduplicated_count and
\* also the sum of (group size - 1) over the groups, and duplicate_groups is the
\* number of groups that produced a merged record.
SummaryConsistent ==
    Done =>
        /\ summary.original_count = Len(leads)
        /\ summary.deduplicated_count = Len(merged_leads)
        /\ summary.duplicates_removed = summary.original_count - summary.deduplicated_count
        /\ summary.duplicates_removed = duplicate_count(groups, DOMAIN groups)
        /\ summary.duplicate_groups = Cardinality(MergedRecords)
        /\ summary.duplicate_groups =
               Cardinality({merged_leads[k][DoneGroupKey] : k \in MergedRecords})

\* C14 witness: the company deduplicator merged one group of three records
SummaryConsistentWitness ==
    /\ pc = "companies_done"
    /\ Len(leads) = 3
    /\ summary.deduplicated_count = 1
    /\ summary.duplicates_removed = 2
    /\ summary.duplicate_groups = 1

\* C15: for the empty input list both deduplicators return, without raising, the
\* empty output list and a summary whose original_count, deduplicated_count,
\* duplicates_removed and duplicate_groups are all 0.
EmptyInput ==
    (leads = <<>> /\ pc # "start") =>
        /\ Done
        /\ merged_leads = <<>>
        /\ DOMAIN groups = {}
        /\ summary.original_count = 0
        /\ summary.deduplicated_count = 0
        /\ summary.duplicates_removed = 0
        /\ summary.duplicate_groups = 0

\* C15 witness: the contact deduplicator returned for the empty list
EmptyInputWitness ==
    /\ leads = <<>>
    /\ pc = "contacts_done"
    /\ merged_leads = <<>>
    /\ summary.original_count = 0

(***************************************************************************)
(* checkpoint_manager.py: BatchProcessor.run over a CheckpointManager      *)
(***************************************************************************)

MaxItems == 3

MaxRuns == 3

\* the checkpoint file does not exist
NoFile == <<>>

\* process_fn(item): the result object of an item
process_fn(item) == [item |-> item, form |-> "object"]

\* a result written by json.dump(..., default=str) and read back by json.load
JsonRoundTrip(result) == [item |-> result.item, form |-> "json"]

\* CheckpointManager.save: the contents of the file after os.replace
save(last_row, rs) ==
    [last_row      |-> last_row,
     results_count |-> Len(rs),
     results       |-> [k \in 1..Len(rs) |-> JsonRoundTrip(rs[k])]]

\* CheckpointManager.should_save
should_save(current_row) == (current_row + 1) % save_interval = 0

InitBatch ==
    /\ pc = "batch_idle"
    /\ items \in UNION {[1..n -> {"a", "b"}] : n \in 0..MaxItems}
    /\ save_interval \in {1, 2}
    /\ on_progress \in BOOLEAN
    /\ checkpoint_file = NoFile
    /\ results = <<>>
    /\ row = 0
    /\ returned = <<>>
    /\ runs = 0
    /\ summary = <<>>
    /\ Idle
    /\ NormIdle

\* run() up to the loop: resume from the checkpoint if there is one
RunStart ==
    /\ pc \in {"batch_idle", "batch_raised"}
    /\ runs < MaxRuns
    /\ runs' = runs + 1
    /\ IF checkpoint_file # NoFile
       THEN /\ row' = checkpoint_file.last_row
            /\ results' = checkpoint_file.results
       ELSE /\ row' = 0
            /\ results' = <<>>
    /\ pc' = "batch_loop"
    /\ UNCHANGED <<items, checkpoint_file, returned, save_interval, on_progress>>

\* the except branch: save(i, results, ...) and re-raise; the save itself may
\* fail, and then the file is left as it was
ExceptBranch(rs) ==
    /\ \/ checkpoint_file' = save(row, rs)
       \/ UNCHANGED checkpoint_file
    /\ results' = rs
    /\ pc' = "batch_raised"
    /\ UNCHANGED <<items, row, returned, save_interval, on_progress, runs>>

\* one iteration in which process_fn raises
ProcessFails ==
    /\ pc = "batch_loop"
    /\ row < Len(items)
    /\ ExceptBranch(results)

\* one iteration in which process_fn returns and the on_progress callback raises
ProgressFails ==
    /\ pc = "batch_loop"
    /\ row < Len(items)
    /\ on_progress
    /\ ExceptBranch(Append(results, process_fn(items[row + 1])))

\* one iteration in which the periodic checkpoint.save raises
SaveFails ==
    /\ pc = "batch_loop"
    /\ row < Len(items)
    /\ should_save(row)
    /\ ExceptBranch(Append(results, process_fn(items[row + 1])))

\* one iteration without an exception
Iteration ==
    /\ pc = "batch_loop"
    /\ row < Len(items)
    /\ results' = Append(results, process_fn(items[row + 1]))
    /\ IF should_save(row)
       THEN checkpoint_file' = save(row + 1, results')
       ELSE UNCHANGED checkpoint_file
    /\ row' = row + 1
    /\ UNCHANGED <<pc, items, returned, save_interval, on_progress, runs>>

\* after the loop: checkpoint.clear() and return results
RunCompletes ==
    /\ pc = "batch_loop"
    /\ row >= Len(items)
    /\ checkpoint_file' = NoFile
    /\ returned' = results
    /\ pc' = "batch_returned"
    /\ UNCHANGED <<items, results, row, save_interval, on_progress, runs>>

dedupVars ==
    <<name, once, twice, leads, threshold, groups, lead_to_group, merged_leads, summary>>

NextBatch ==
    \/ RunStart /\ UNCHANGED dedupVars
    \/ ProcessFails /\ UNCHANGED dedupVars
    \/ ProgressFails /\ UNCHANGED dedupVars
    \/ SaveFails /\ UNCHANGED dedupVars
    \/ Iteration /\ UNCHANGED dedupVars
    \/ RunCompletes /\ UNCHANGED dedupVars

SpecBatch == InitBatch /\ [][NextBatch]_vars

(***************************************************************************)
(* Properties of the batch processor                                       *)
(***************************************************************************)

\* the items the results of a list stand for, in order
ItemsOf(rs) == [k \in 1..Len(rs) |-> rs[k].item]

\* C16: when a run of BatchProcessor.run completes, after any number of runs of
\* the same job that ended by an exception, the results it returns are exactly
\* one result per item, in item order.
ResumeExact == pc = "batch_returned" => ItemsOf(returned) = items

\* the step is the except branch writing the checkpoint file
CheckpointWritten == checkpoint_file' = save(row, results')

\* C30: when run returns normally there is no checkpoint file and the returned
\* list has len(items) entries; when run ends because process_fn raised at item
\* i (and the checkpoint was written), the checkpoint has last_row = i and holds
\* exactly the results of items 0..i-1.
CheckpointLifecycle ==
    [][/\ pc' = "batch_returned" =>
              /\ checkpoint_file' = NoFile
              /\ Len(returned') = Len(items)
       /\ (ProcessFails /\ CheckpointWritten) =>
              /\ checkpoint_file' # NoFile
              /\ checkpoint_file'.last_row = row
              /\ ItemsOf(checkpoint_file'.results) = SubSeq(items, 1, row)]_vars

(***************************************************************************)
(* Properties of the groups of both deduplicators                          *)
(***************************************************************************)

\* the groups and lead_to_group after each earlier pass of the deduplicator that ran
EarlierPasses ==
    IF pc = "companies_done" THEN {DomainPass(leads)}
    ELSE LET idx == 0..(Len(leads) - 1)
         IN  UNION {{first, AliasPass(leads, idx \ DOMAIN first.lead_to_group,
                                      DomainOrder(leads, idx \ DOMAIN first.lead_to_group),
                                      1, first)} :
                       first \in {EmailPass(leads)}}

\* C17: in the groups and lead_to_group a deduplicator found, every group has two
\* or more members and no index twice, lead_to_group[i] = g exactly when i is a
\* member of groups[g], so no index is in two groups; and the groups of an
\* earlier pass stay as that pass made them: a later pass adds no group that
\* holds a record the earlier pass had grouped.
GroupsDisjoint ==
    Done =>
        /\ \A g \in DOMAIN groups :
              /\ Len(groups[g]) >= 2
              /\ Cardinality(Range(groups[g])) = Len(groups[g])
              /\ Range(groups[g]) \subseteq 0..(Len(leads) - 1)
        /\ \A i \in 0..(Len(leads) - 1) : \A g \in DOMAIN groups :
              (i \in DOMAIN lead_to_group /\ lead_to_group[i] = g)
                  <=> i \in Range(groups[g])
        /\ \A g \in DOMAIN groups : \A h \in DOMAIN groups :
              g # h => Range(groups[g]) \cap Range(groups[h]) = {}
        /\ \A i \in DOMAIN lead_to_group : lead_to_group[i] \in DOMAIN groups
        /\ \A early \in EarlierPasses :
              /\ \A g \in DOMAIN early.groups :
                    g \in DOMAIN groups /\ groups[g] = early.groups[g]
              /\ \A g \in DOMAIN groups \ DOMAIN early.groups :
                    Range(groups[g]) \cap DOMAIN early.lead_to_group = {}

\* C17 witness: the first pass grouped LeadA and AcmeMail by domain; AcmeMail's
\* name matches JaneA's, and JaneA stayed ungrouped
GroupsDisjointWitness ==
    /\ pc = "companies_done"
    /\ leads = <<LeadA, AcmeMail, JaneA>>
    /\ DOMAIN groups = {DomainAcmeCom}
    /\ groups[DomainAcmeCom] = <<0, 1>>
    /\ DOMAIN lead_to_group = {0, 1}

(***************************************************************************)
(* Properties of the merged records of both deduplicators                  *)
(***************************************************************************)

\* the completeness score the deduplicator that ran gives input record i
DoneScore(i) ==
    ScoreOf(IF pc = "companies_done" THEN "company" ELSE "contact", leads[i + 1])

\* member x of a group ranks before member y: higher score, or the same score
\* and earlier in the group's index list
RanksBefore(x, y) == DoneScore(x) > DoneScore(y) \/ (DoneScore(x) = DoneScore(y) /\ x < y)

\* the members of group g that hold a non-empty value for key k
Holders(g, k) ==
    {x \in Range(groups[g]) : k \in DOMAIN leads[x + 1] /\ Truthy(leads[x + 1][k])}

\* the member of group g that ranks first
Primary(g) == CHOOSE x \in Range(groups[g]) : \A y \in Range(groups[g]) \ {x} : RanksBefore(x, y)

\* C23: in the merged record of a group, the value of every key but the two
\* annotations is the value the highest-ranked member with a non-empty value for
\* that key holds, so a non-empty value of the primary is never replaced; a key
\* no member holds a non-empty value for is as in the primary.
FieldFilling ==
    Done =>
        \A m \in MergedRecords :
            LET g    == merged_leads[m][DoneGroupKey]
                keys == UNION {DOMAIN leads[x + 1] : x \in Range(groups[g])}
            IN  /\ \A k \in keys \ {DoneGroupKey, DoneCountKey} :
                      IF Holders(g, k) # {}
                      THEN /\ k \in DOMAIN merged_leads[m]
                           /\ \E h \in Holders(g, k) :
                                 /\ \A o \in Holders(g, k) \ {h} : RanksBefore(h, o)
                                 /\ merged_leads[m][k] = leads[h + 1][k]
                      ELSE IF k \in DOMAIN leads[Primary(g) + 1]
                           THEN /\ k \in DOMAIN merged_leads[m]
                                /\ merged_leads[m][k] = leads[Primary(g) + 1][k]
                           ELSE k \notin DOMAIN merged_leads[m]
                /\ DOMAIN merged_leads[m] \subseteq keys \cup {DoneGroupKey, DoneCountKey}

\* C23 witness: FillTop is the primary and keeps its title; the phone comes from
\* FillMid, which ranks before FillLow although it stands after it
FieldFillingWitness ==
    /\ Done
    /\ leads = <<FillLow, FillMid, FillTop>>
    /\ Len(merged_leads) = 1
    /\ merged_leads[1]["title"] = FillTop["title"]
    /\ merged_leads[1]["phone"] = FillMid["phone"]

\* the members of group g that have the highest score of the group
TopScorers(g) ==
    {x \in Range(groups[g]) : \A y \in Range(groups[g]) : DoneScore(y) <= DoneScore(x)}

\* C24: when several members of a group share the highest completeness score,
\* the primary is the one of lowest index among them: the merged record keeps
\* every non-empty value of that member.
TieBreak ==
    Done =>
        \A m \in MergedRecords :
            LET g == merged_leads[m][DoneGroupKey]
                p == Lowest(TopScorers(g))
            IN  \A k \in DOMAIN leads[p + 1] :
                    Truthy(leads[p + 1][k]) => merged_leads[m][k] = leads[p + 1][k]

\* C24 witness: JaneB and JaneA have the same score and different emails; JaneB
\* stands first and the merged record has its email
TieBreakWitness ==
    /\ Done
    /\ leads = <<JaneB, JaneA>>
    /\ Len(merged_leads) = 1
    /\ DoneScore(0) = DoneScore(1)
    /\ merged_leads[1]["email"] = JaneB["email"]
    /\ merged_leads[1]["email"] # JaneA["email"]

\* the position in the output of the record that stands for input index i
OutputPosition(i) == Cardinality({o \in Origins : o <= i})

\* every ungrouped input record stands in the output with the keys and values it
\* has in the input
PassThrough ==
    \A i \in (0..(Len(leads) - 1)) \ DOMAIN lead_to_group :
        LET out == merged_leads[OutputPosition(i)]
        IN  /\ DOMAIN out = DOMAIN leads[i + 1]
            /\ \A k \in DOMAIN out : out[k] = leads[i + 1][k]
            /\ (DoneCountKey \in DOMAIN out) = (DoneCountKey \in DOMAIN leads[i + 1])
            /\ (DoneGroupKey \in DOMAIN out) = (DoneGroupKey \in DOMAIN leads[i + 1])

\* C25: a record that is in no duplicate group appears in the output with exactly
\* the keys and values it has in the input, no annotation added, and the step
\* that merges leaves the input list and its records as they were.
PassThroughUnchanged == [][Done' => (leads' = leads /\ PassThrough')]_vars

\* C25 witness: a deduplicator has finished on a list with a grouped pair and an
\* ungrouped record that has a field the merged record has not
PassThroughWitness ==
    /\ Done
    /\ Len(leads) = 3
    /\ Cardinality(DOMAIN groups) = 1
    /\ \E i \in (0..2) \ DOMAIN lead_to_group :
          /\ merged_leads[OutputPosition(i)] = leads[i + 1]
          /\ DoneCountKey \notin DOMAIN merged_leads[OutputPosition(i)]
          /\ DOMAIN leads[i + 1] # {}

(***************************************************************************)
(* Properties of the group identifiers of both deduplicators               *)
(***************************************************************************)

\* the number at the end of a counted group id
GroupNumber(g) ==
    CHOOSE n \in 0..Len(leads) :
        g \in {EmailGroupId(n), AliasGroupId(n), NameGroupId(n), FuzzyGroupId(n)}

\* the pass that makes group g: 1 email, 2 alias, 3 name
PassOf(g) == IF IsEmailGroup(g) THEN 1 ELSE IF IsAliasGroup(g) THEN 2 ELSE 3

\* group g is created before group h by find_contact_duplicates: in an earlier
\* pass, or in the same first or third pass with an earlier first member
CreatedBefore(g, h) ==
    \/ PassOf(g) < PassOf(h)
    \/ PassOf(g) = PassOf(h) /\ PassOf(g) # 2 /\ groups[g][1] < groups[h][1]

\* the groups hold every record that lead_to_group sends to them
NothingOverwritten ==
    \A i \in DOMAIN lead_to_group :
        /\ lead_to_group[i] \in DOMAIN groups
        /\ i \in Range(groups[lead_to_group[i]])

\* the extracted domains that two or more records share and the first pass groups
SharedDomains ==
    {extract_domain(leads[i]) : i \in 1..Len(leads)}
        \cap {d \in {extract_domain(leads[i]) : i \in 1..Len(leads)} :
                 GroupableDomain(d) /\ Cardinality(SharingDomain(d)) >= 2}

\* C29: no two groups of a run receive the same id, so that no entry of groups
\* is overwritten; the three passes of find_contact_duplicates share one counter:
\* the numbers of the email_, alias_ and name_ ids are pairwise distinct, grow in
\* creation order, and the number of groups is the final value of the counter.
GroupIdsUnique ==
    Done =>
        /\ NothingOverwritten
        /\ pc = "contacts_done" =>
              LET counter == find_contact_duplicates(leads).group_counter
              IN  /\ Cardinality(DOMAIN groups) = counter
                  /\ {GroupNumber(g) : g \in DOMAIN groups} = 0..(counter - 1)
                  /\ \A g, h \in DOMAIN groups :
                        /\ g # h => GroupNumber(g) # GroupNumber(h)
                        /\ CreatedBefore(g, h) => GroupNumber(g) < GroupNumber(h)
        /\ pc = "companies_done" =>
              LET counter == find_duplicates(leads, threshold).group_counter
              IN  /\ Cardinality(DOMAIN groups) = Cardinality(SharedDomains) + counter
                  /\ {g \in DOMAIN groups : IsFuzzyGroup(g)}
                        = {FuzzyGroupId(n) : n \in 0..(counter - 1)}

\* C29 witness: the three passes have made email_0, alias_1 and name_2
GroupIdsUniqueWitness ==
    /\ pc = "contacts_done"
    /\ leads = ThreePairs
    /\ DOMAIN groups = {EmailGroupId(0), AliasGroupId(1), NameGroupId(2)}
    /\ groups[EmailGroupId(0)] = <<0, 1>>
    /\ groups[AliasGroupId(1)] = <<2, 3>>
    /\ groups[NameGroupId(2)] = <<4, 5>>

====
